---- MODULE Spec2Model ----
(***************************************************************************)
(* PomodoRoad: the stopover optimizer (utils/pomodoroHelper.ts), the       *)
(* journey planner and location inputs that feed it, and the route         *)
(* computation of the map renderer (components/RouteRenderer.tsx) together *)
(* with the application state that owns origin, destination and stopovers  *)
(* (App.tsx).                                                              *)
(*                                                                         *)
(* Specifications of the application:                                      *)
(*   SpecOpt     one caller invoking calculateIdealStopovers with          *)
(*               arbitrary arguments against an arbitrary routing and      *)
(*               geocoding oracle;                                         *)
(*   SpecLoop    the same on fewer routes, every request being answered;   *)
(*   SpecGeocode geocodeStopoverCoordinates on accepted coordinate lists,  *)
(*               any of its calls failing;                                 *)
(*   SpecTwin    two invocations with the same arguments against an oracle *)
(*               that repeats its answers;                                 *)
(*   SpecApp     the application: user edits, auto-suggestion and journey  *)
(*               reset, with the route computations they start;            *)
(*   SpecRender  user edits, journey reset and the responses to the        *)
(*               renderer's asynchronous route computations;               *)
(*   SpecAnim    the journey (start, pause, timer ticks, reset), the       *)
(*               route responses that arrive during it, and the animation  *)
(*               frames of the progress marker;                            *)
(*   SpecTimer   a journey with stopovers: the FocusTimer, its rests and   *)
(*               the journey handlers;                                     *)
(*   SpecCenter  a journey with auto-centering: its toggle, the map        *)
(*               interactions that end it and the animation frames.        *)
(*                                                                         *)
(* Specifications of the route geometry functions, each applied to inputs  *)
(* drawn from a bounded set:                                               *)
(*   SpecTimePoints  buildTimePoints;                                      *)
(*   SpecMerge       buildTimePoints on routes whose steps share points;   *)
(*   SpecTable       the cumulative-distance table of a polyline;          *)
(*   SpecSegments    the speed segments computeRoute derives from steps;   *)
(*   SpecDecode      decodePolyline;                                       *)
(*   SpecLocate      getPointAtTime;                                       *)
(*   SpecTravel      the distance getPositionAtProgress derives from a     *)
(*                   progress;                                             *)
(*   SpecPosition    getPositionAtProgress and getPointAtDistance on the   *)
(*                   tables of a route;                                    *)
(*   SpecSymmetry    getPointAtDistance and getPointAtTime on a polyline   *)
(*                   and its table;                                        *)
(*   SpecPartition   the distance table and the speed segments of one      *)
(*                   route computation;                                    *)
(*   SpecCandidates  generateStopoverCoordinates on the tables of a route; *)
(*   SpecStopoverPositions  the stopover positions the renderer reports.   *)
(***************************************************************************)
EXTENDS Integers, Sequences, FiniteSets, TLC

(***************************************************************************)
(* Program constants                                                       *)
(***************************************************************************)
IDEAL_POMODORO_SECONDS == 1500
MAX_AUTO_STOP_OVERS == 23
MIN_IDEAL_SEGMENT_SECONDS == 1200
MAX_IDEAL_SEGMENT_SECONDS == 1800
MAX_ATTEMPTS == 4
\* FALLBACK_SPEED_MPS = 13.4, in tenths of a metre per second
FALLBACK_SPEED_DMPS == 134
\* DEFAULT_SPEED_MPS = 13.4 of the renderer, in tenths of a metre per second
DEFAULT_SPEED_DMPS == 134
\* the duration of a step without a staticDuration of the form "<digits>s"
DEFAULT_STEP_SECONDS == 1
MAX_MANUAL_STOPOVERS == 3
DEFAULT_REST_MINUTES == 5

(***************************************************************************)
(* Bounds of the exploration                                               *)
(***************************************************************************)
\* longest leg list an oracle answer carries
MaxLegs == 2
\* only the first MaxFailingStop reverse-geocoding requests of an invocation
\* may fail
MaxFailingStop == 1
\* route computations the renderer may start in one behaviour
MaxRequests == 2
\* stopovers the user may replace or remove in one behaviour
MaxEdits == 1
\* steps of a leg of a route given to buildTimePoints
MaxSteps == 2
\* points of a decoded polyline
MaxPoints == 4
\* characters of an encoded polyline given to decodePolyline
MaxChars == 4
\* samples of a time series given to getPointAtTime
MaxSamples == 3
\* total time of a journey in seconds: progress is 0/3, 1/3, 2/3
JourneySeconds == 3
\* animation frame ids in use at one time
MaxFrames == 3
\* map-interaction events between two renders
MaxBurst == 2

(***************************************************************************)
(* JavaScript numbers that may be NaN, and the duration strings of the     *)
(* oracle ("<digits>s"), as far as parseDurationSeconds tells them apart.  *)
(***************************************************************************)
Num(n) == [nan |-> FALSE, val |-> n]
NaN == [nan |-> TRUE, val |-> 0]
IsFinite(x) == ~x.nan

\* a duration field of a response: absent, a string without "<digits>s",
\* a string whose digit group is only dots ("..s"), or "<n>s"
FieldMissing == [kind |-> "missing", val |-> 0]
FieldNoMatch == [kind |-> "nomatch", val |-> 0]
FieldDots == [kind |-> "dots", val |-> 0]
FieldSeconds(n) == [kind |-> "seconds", val |-> n]

parseDurationSeconds(duration) ==
    CASE duration.kind = "missing" -> Num(0)
      [] duration.kind = "nomatch" -> Num(0)
      [] duration.kind = "dots" -> NaN
      [] OTHER -> Num(duration.val)

Max(a, b) == IF a >= b THEN a ELSE b
Min(a, b) == IF a <= b THEN a ELSE b

\* Math.round(num / den) for num >= 0, den > 0: halves round up
MathRound(num, den) == (2 * num + den) \div (2 * den)

\* Math.ceil(num / den) for num >= 0, den > 0
MathCeil(num, den) == (num + den - 1) \div den

\* Math.floor in place of Math.round
getIdealSegmentCountFloor(totalDurationSeconds) ==
    IF ~IsFinite(totalDurationSeconds) \/ totalDurationSeconds.val <= 0
    THEN 1
    ELSE Max(1, totalDurationSeconds.val \div IDEAL_POMODORO_SECONDS)

getIdealSegmentCount(totalDurationSeconds) ==
    IF ~IsFinite(totalDurationSeconds) \/ totalDurationSeconds.val <= 0
    THEN 1
    ELSE IF totalDurationSeconds.val < IDEAL_POMODORO_SECONDS
         THEN 1
         ELSE Max(1, MathRound(totalDurationSeconds.val, IDEAL_POMODORO_SECONDS))

(***************************************************************************)
(* The maxStopovers argument: omitted, NaN, Infinity, or a number given in *)
(* halves (halves = 5 is 2.5) so that Math.floor has something to do.      *)
(***************************************************************************)
ArgAbsent == [kind |-> "absent", halves |-> 0]
ArgNaN == [kind |-> "nan", halves |-> 0]
ArgInfinity == [kind |-> "infinity", halves |-> 0]
ArgNumber(h) == [kind |-> "number", halves |-> h]

normalizeMaxStopovers(maxStopovers) ==
    IF maxStopovers.kind = "number" /\ maxStopovers.halves >= 0
    THEN maxStopovers.halves \div 2
    ELSE MAX_AUTO_STOP_OVERS

(***************************************************************************)
(* Locations.  The placeholder of a manual stopover is {lat: 0, lng: 0};   *)
(* every other location has non-zero coordinates.  A candidate stopover is *)
(* the point of the route at i/n of its duration (or of its length when    *)
(* the route has no timing data): lat = i, lng = n name that point.        *)
(***************************************************************************)
Coord(i, n) == [lat |-> i, lng |-> n]
NoAddress == [label |-> "none", n |-> 0]
FormattedAddress == [label |-> "formatted", n |-> 0]
\* the synthesized label "Stop N (lat, lng)"
StopLabel(n) == [label |-> "stop", n |-> n]
Place(c, addr) == [lat |-> c.lat, lng |-> c.lng, address |-> addr]
\* the placeholder addStopover appends
ZeroLocation == [lat |-> 0, lng |-> 0, address |-> NoAddress]
\* null, for origin and destination
NullLocation == [lat |-> 0, lng |-> 0, address |-> [label |-> "null", n |-> 0]]
\* places the user picks in a location search box
PickedOrigin == [lat |-> 100, lng |-> 100, address |-> FormattedAddress]
PickedDestination == [lat |-> 200, lng |-> 200, address |-> FormattedAddress]
PickedStopover == [lat |-> 150, lng |-> 150, address |-> FormattedAddress]

\* route shapes a response can have, as far as generateStopoverCoordinates
\* depends on them: time points with timing data; no timing data but a
\* polyline of positive length; neither
RouteShapes == {"timed", "untimed", "degenerate"}

\* one point per segment instead of one per stop
generateStopoverCoordinatesPerSegment(segmentCount, totalDurationSeconds, shape) ==
    IF segmentCount <= 1 \/ totalDurationSeconds <= 0 \/ shape = "degenerate"
    THEN <<>>
    ELSE [i \in 1..segmentCount |-> Coord(i, segmentCount)]

generateStopoverCoordinates(segmentCount, totalDurationSeconds, shape) ==
    LET stopCount == Max(segmentCount - 1, 0) IN
    IF stopCount = 0 \/ totalDurationSeconds <= 0
    THEN <<>>
    ELSE IF shape = "degenerate"
         THEN <<>>
         ELSE [i \in 1..stopCount |-> Coord(i, segmentCount)]

(***************************************************************************)
(* buildTimePoints.  Sample points lie on one meridian, UnitMeters apart   *)
(* for consecutive latitudes, so that calculateDistance is a multiple of   *)
(* UnitMeters and every quotient the function takes is exact.              *)
(***************************************************************************)
UnitMeters == 1608
GeoPoint(i) == [lat |-> i, lng |-> 1]
calculateDistance(p, q) ==
    (IF p.lat >= q.lat THEN p.lat - q.lat ELSE q.lat - p.lat) * UnitMeters

\* JavaScript a + b, a || b and a * num / den on numbers that may be NaN
NumAdd(a, b) == IF a.nan \/ b.nan THEN NaN ELSE Num(a.val + b.val)
NumOr(a, b) == IF ~a.nan /\ a.val # 0 THEN a ELSE b
NumScale(a, num, den) == IF a.nan THEN NaN ELSE Num((a.val * num) \div den)

\* a <= b in JavaScript: false when either side is NaN
NumLeq(a, b) == ~a.nan /\ ~b.nan /\ a.val <= b.val

\* a step of a leg: its decoded polyline (empty when it has none), its
\* duration and staticDuration fields, and distanceMeters (0 when it is
\* missing or not a positive number)
Step(polyline, duration, staticDuration, distanceMeters) ==
    [polyline |-> polyline, duration |-> duration,
     staticDuration |-> staticDuration, distanceMeters |-> distanceMeters]

TimePoint(p, time) == [lat |-> p.lat, lng |-> p.lng, time |-> time]

\* a coinciding point is dropped, the last sample keeping its time
pushPointKeepingTime(points, p, time) ==
    IF Len(points) > 0 /\ points[Len(points)].lat = p.lat
                       /\ points[Len(points)].lng = p.lng
    THEN points
    ELSE Append(points, TimePoint(p, time))

\* pushPoint: lastLat, lastLng are the coordinates of the last point pushed
pushPoint(points, p, time) ==
    IF Len(points) > 0 /\ points[Len(points)].lat = p.lat
                       /\ points[Len(points)].lng = p.lng
    THEN [points EXCEPT ![Len(points)].time = time]
    ELSE Append(points, TimePoint(p, time))

\* stepTotalDistance: the sum of the segment distances
RECURSIVE SumSeq(_)
SumSeq(list) == IF list = <<>> THEN 0 ELSE Head(list) + SumSeq(Tail(list))

\* the last loop of a step, from segment i on: acc = [points, cumulativeTime]
RECURSIVE spreadStep(_, _, _, _, _, _)
spreadStep(acc, stepPolyline, stepDistances, stepTotalDistance, stepDuration, i) ==
    IF i > Len(stepPolyline) - 1
    THEN acc
    ELSE LET deltaTime == NumScale(stepDuration, stepDistances[i],
                                   stepTotalDistance)
             time == NumAdd(acc.cumulativeTime, deltaTime)
         IN  spreadStep([points |-> pushPoint(acc.points, stepPolyline[i + 1], time),
                         cumulativeTime |-> time],
                        stepPolyline, stepDistances, stepTotalDistance,
                        stepDuration, i + 1)

\* the body of leg.steps.forEach
buildStep(acc, step) ==
    LET stepPolyline == step.polyline
        parsed == NumOr(parseDurationSeconds(step.duration),
                        parseDurationSeconds(step.staticDuration))
    IN  IF Len(stepPolyline) = 0
        THEN [acc EXCEPT !.cumulativeTime = NumAdd(acc.cumulativeTime, parsed)]
        ELSE LET stepDistances ==
                     [i \in 1..(Len(stepPolyline) - 1) |->
                         calculateDistance(stepPolyline[i], stepPolyline[i + 1])]
                 stepTotalDistance == SumSeq(stepDistances)
                 declaredDistance ==
                     IF step.distanceMeters > 0 THEN step.distanceMeters
                     ELSE stepTotalDistance
                 stepDuration ==
                     IF parsed = Num(0) /\ declaredDistance > 0
                     THEN Num((declaredDistance * 10) \div FALLBACK_SPEED_DMPS)
                     ELSE parsed
                 started ==
                     IF Len(acc.points) = 0
                     THEN pushPoint(acc.points, stepPolyline[1], acc.cumulativeTime)
                     ELSE acc.points
             IN  IF stepDuration = Num(0) \/ stepTotalDistance = 0
                 THEN LET time == NumAdd(acc.cumulativeTime, stepDuration) IN
                      [points |-> pushPoint(started,
                                            stepPolyline[Len(stepPolyline)], time),
                       cumulativeTime |-> time]
                 ELSE spreadStep([points |-> started,
                                  cumulativeTime |-> acc.cumulativeTime],
                                 stepPolyline, stepDistances, stepTotalDistance,
                                 stepDuration, 1)

RECURSIVE buildSteps(_, _)
buildSteps(acc, steps) ==
    IF steps = <<>> THEN acc ELSE buildSteps(buildStep(acc, Head(steps)), Tail(steps))

RECURSIVE buildLegs(_, _)
buildLegs(acc, legs) ==
    IF legs = <<>> THEN acc ELSE buildLegs(buildSteps(acc, Head(legs)), Tail(legs))

\* a route is the sequence of its legs, a leg the sequence of its steps
\* (empty when it has no steps); a route without legs is <<>>
buildTimePoints(route) ==
    IF Len(route) = 0
    THEN <<>>
    ELSE LET points == buildLegs([points |-> <<>>, cumulativeTime |-> Num(0)],
                                 route).points
         IN  IF Len(points) > 0
             THEN [points EXCEPT ![1].time = Num(0)]
             ELSE points

(***************************************************************************)
(* The cumulative-distance table of a decoded polyline, as                 *)
(* calculateIdealStopovers and computeRoute build it                       *)
(***************************************************************************)
\* the loop from index i on (0-based i of the code is i here), with the
\* table and the running total so far
RECURSIVE extendDistances(_, _, _, _)
extendDistances(path, table, totalDistance, i) ==
    IF i >= Len(path)
    THEN table
    ELSE LET total == totalDistance + calculateDistance(path[i], path[i + 1])
         IN  extendDistances(path, Append(table, total), total, i + 1)

\* const distances = [0]; for (i = 1; i < polyline.length; i++) ...
cumulativeDistanceTable(path) == extendDistances(path, <<0>>, 0, 1)

(***************************************************************************)
(* getPointAtTime.  A coordinate of the result is the quotient num / den   *)
(* (den > 0), or NaN.                                                      *)
(***************************************************************************)
Coordinate(num, den) == [nan |-> FALSE, num |-> num, den |-> den]
NaNCoordinate == [nan |-> TRUE, num |-> 0, den |-> 1]

\* { lat: point.lat, lng: point.lng }
plainPoint(point) ==
    [kind |-> "point", lat |-> Coordinate(point.lat, 1),
     lng |-> Coordinate(point.lng, 1)]

\* previous.lat + (current.lat - previous.lat) * ratio with
\* ratio = Math.min(Math.max((targetTime - previous.time) / interval, 0), 1)
interpolate(from, to, elapsed, interval) ==
    IF elapsed <= 0 THEN Coordinate(from * interval, interval)
    ELSE IF elapsed >= interval THEN Coordinate(to * interval, interval)
    ELSE Coordinate(from * interval + (to - from) * elapsed, interval)

\* the body of the if (targetTime <= current.time)
betweenPoints(previous, current, targetTime) ==
    IF previous.time.nan
    THEN \* interval is NaN: interval <= 0 is false and the ratio is NaN
         [kind |-> "point", lat |-> NaNCoordinate, lng |-> NaNCoordinate]
    ELSE LET interval == current.time.val - previous.time.val
             elapsed == targetTime - previous.time.val
         IN  IF interval <= 0
             THEN plainPoint(current)
             ELSE [kind |-> "point",
                   lat |-> interpolate(previous.lat, current.lat,
                                       elapsed, interval),
                   lng |-> interpolate(previous.lng, current.lng,
                                       elapsed, interval)]

\* the for loop from index i on (points[i] is the current point, counted
\* from 1); the result with the index at which the loop was left
RECURSIVE scanPoints(_, _, _)
scanPoints(points, targetTime, i) ==
    IF i > Len(points)
    THEN [index |-> Len(points), point |-> plainPoint(points[Len(points)])]
    ELSE IF NumLeq(Num(targetTime), points[i].time)
    THEN [index |-> i - 1,
          point |-> betweenPoints(points[i - 1], points[i], targetTime)]
    ELSE scanPoints(points, targetTime, i + 1)

\* the loop that takes the first sample it reaches beyond the first one
scanPointsEager(points, targetTime) ==
    IF Len(points) = 1
    THEN [index |-> 1, point |-> plainPoint(points[1])]
    ELSE [index |-> 1,
          point |-> betweenPoints(points[1], points[2], targetTime)]

\* the search of getPointAtTime past the first sample
searchPoints(points, targetTime) == scanPoints(points, targetTime, 2)

\* index 0: the first point was returned before the loop
getPointAtTime(points, targetTime) ==
    IF Len(points) = 0
    THEN [index |-> 0, point |-> [kind |-> "null"]]
    ELSE IF NumLeq(Num(targetTime), points[1].time)
    THEN [index |-> 0, point |-> plainPoint(points[1])]
    ELSE searchPoints(points, targetTime)

(***************************************************************************)
(* decodePolyline.  An encoded string is the sequence of its character     *)
(* codes less 63 (the b of the code), each in 0..63 for the characters     *)
(* "?" to "~"; a decoded point holds its coordinates in units of 1e-5      *)
(* degree, so that lat / 1e5 is exact.                                     *)
(***************************************************************************)
\* encoded.charCodeAt(index) - 63; NaN beyond the end of the string
charAt(encoded, index) ==
    IF index <= Len(encoded) THEN Num(encoded[index]) ELSE NaN

\* b & 0x1f; a NaN operand of & is 0
lowFiveBits(b) == IF b.nan THEN 0 ELSE b.val % 32

\* b >= 0x20; false for NaN
continues(b) == ~b.nan /\ b.val >= 32

\* the do-while loop: result |= (b & 0x1f) << shift for one group; the
\* groups read here stay below 2^30, where | on disjoint bits is +
RECURSIVE readGroup(_, _, _, _)
readGroup(encoded, index, shift, result) ==
    LET b == charAt(encoded, index)
        merged == result + lowFiveBits(b) * 2^shift
    IN  IF continues(b)
        THEN readGroup(encoded, index + 1, shift + 5, merged)
        ELSE [result |-> merged, index |-> index + 1]

\* (result & 1) !== 0 ? (result >> 1) : ~(result >> 1), the signs swapped
zigZagSwapped(result) ==
    IF result % 2 # 0 THEN result \div 2 ELSE -(result \div 2) - 1

\* (result & 1) !== 0 ? ~(result >> 1) : result >> 1
zigZag(result) ==
    IF result % 2 # 0 THEN -(result \div 2) - 1 ELSE result \div 2

\* { lat: lat / 1e5, lng: lng / 1e5 }
E5Point(lat, lng) == [lat |-> lat, lng |-> lng]

\* while (index < len); index counts from 1 here
RECURSIVE decodeFrom(_, _, _, _, _)
decodeFrom(encoded, index, lat, lng, poly) ==
    IF index > Len(encoded)
    THEN poly
    ELSE LET latGroup == readGroup(encoded, index, 0, 0)
             newLat == lat + zigZag(latGroup.result)
             lngGroup == readGroup(encoded, latGroup.index, 0, 0)
             newLng == lng + zigZag(lngGroup.result)
         IN  decodeFrom(encoded, lngGroup.index, newLat, newLng,
                        Append(poly, E5Point(newLat, newLng)))

decodePolyline(encoded) == decodeFrom(encoded, 1, 0, 0, <<>>)

(***************************************************************************)
(* The speed segments computeRoute derives from the steps of a route       *)
(***************************************************************************)
\* field?.match(/(\d+)s/) ? parseInt(match[1]) : fallback
parseWholeSeconds(field, fallback) ==
    IF field.kind = "seconds" THEN field.val ELSE fallback

\* a speed in metres per second, as the quotient num / den
Speed(num, den) == [num |-> num, den |-> den]

SpeedSegment(startDistance, endDistance, duration, speed) ==
    [startDistance |-> startDistance, endDistance |-> endDistance,
     duration |-> duration, speed |-> speed]

\* the body of the loop over leg.steps
stepSegment(step, cumulativeDistance) ==
    LET stepDistance == step.distanceMeters
        stepDuration == parseWholeSeconds(step.staticDuration,
                                          DEFAULT_STEP_SECONDS)
    IN  SpeedSegment(cumulativeDistance, cumulativeDistance + stepDistance,
                     stepDuration,
                     IF stepDuration > 0 THEN Speed(stepDistance, stepDuration)
                     ELSE Speed(DEFAULT_SPEED_DMPS, 10))

RECURSIVE stepSegments(_, _)
stepSegments(fallbackSegments, steps) ==
    IF steps = <<>>
    THEN fallbackSegments
    ELSE LET cumulativeDistance ==
                 IF fallbackSegments = <<>> THEN 0
                 ELSE fallbackSegments[Len(fallbackSegments)].endDistance
         IN  stepSegments(Append(fallbackSegments,
                                 stepSegment(Head(steps), cumulativeDistance)),
                          Tail(steps))

\* the loop over route.legs; a leg without steps is skipped
RECURSIVE legSegments(_, _)
legSegments(fallbackSegments, legs) ==
    IF legs = <<>>
    THEN fallbackSegments
    ELSE legSegments(stepSegments(fallbackSegments, Head(legs)), Tail(legs))

\* the speed segments of a route when no speed limits are available
buildFallbackSegments(legs) == legSegments(<<>>, legs)

(***************************************************************************)
(* getPositionAtProgress: from the progress to the distance travelled.     *)
(* The progress and the distance are quotients num / den with den > 0.     *)
(***************************************************************************)
Quotient(num, den) == [num |-> num, den |-> den]

\* no distance derived yet
NoDistance == Quotient(0, 0)

\* timeInSegment = elapsedTime, the time accumulated not being subtracted
timeInSegmentFromStart(prog, totalDuration, timeAccumulated) ==
    Quotient(prog.num * totalDuration, prog.den)

\* timeInSegment = elapsedTime - timeAccumulated, with
\* elapsedTime = prog * totalDuration
timeInSegment(prog, totalDuration, timeAccumulated) ==
    Quotient(prog.num * totalDuration - timeAccumulated * prog.den, prog.den)

\* segment.startDistance + timeInSegment * segment.speed
distanceInto(segment, time) ==
    Quotient(segment.startDistance * time.den * segment.speed.den
                 + time.num * segment.speed.num,
             time.den * segment.speed.den)

\* the loop over speedSegments from the i-th segment on
RECURSIVE travel(_, _, _, _, _, _)
travel(segments, prog, totalDuration, i, timeAccumulated, targetDistance) ==
    IF i > Len(segments)
    THEN targetDistance
    ELSE IF (timeAccumulated + segments[i].duration) * prog.den
                >= prog.num * totalDuration
    THEN distanceInto(segments[i],
                      timeInSegment(prog, totalDuration, timeAccumulated))
    ELSE travel(segments, prog, totalDuration, i + 1,
                timeAccumulated + segments[i].duration,
                Quotient(segments[i].endDistance, 1))

RECURSIVE reduceDuration(_)
reduceDuration(segments) ==
    IF segments = <<>> THEN 0
    ELSE Head(segments).duration + reduceDuration(Tail(segments))

\* targetDistance of getPositionAtProgress
targetDistanceAt(segments, totalDistance, prog) ==
    IF Len(segments) > 0
    THEN travel(segments, prog, reduceDuration(segments), 1, 0,
                Quotient(0, 1))
    ELSE Quotient(prog.num * totalDistance, prog.den)

(***************************************************************************)
(* getPositionAtProgress: from the distance to the position on the route   *)
(***************************************************************************)
\* the loop for (let i = 0; i < cumulativeDistances.length - 1; i++), the
\* index counted from 1; segmentIndex stays at the first segment when no
\* segment holds the distance
RECURSIVE findSegmentIndex(_, _, _)
findSegmentIndex(table, distance, i) ==
    IF i > Len(table) - 1
    THEN 1
    ELSE IF /\ distance.num >= table[i] * distance.den
            /\ distance.num <= table[i + 1] * distance.den
    THEN i
    ELSE findSegmentIndex(table, distance, i + 1)

\* startPoint + (endPoint - startPoint) * fraction for one coordinate, with
\* fraction = segmentLength > 0 ? distanceIntoSegment / segmentLength : 0
alongSegment(from, to, distance, segmentStartDist, segmentLength) ==
    IF segmentLength > 0
    THEN Coordinate(from * distance.den * segmentLength
                        + (to - from)
                            * (distance.num - segmentStartDist * distance.den),
                    distance.den * segmentLength)
    ELSE Coordinate(from, 1)

\* getPositionAtProgress: a LatLng, or the TypeError of endPoint.lat() when
\* routePath[segmentIndex + 1] is undefined
getPositionAtProgress(path, table, segments, progressValue) ==
    LET totalDistance == table[Len(table)]
        distance == targetDistanceAt(segments, totalDistance, progressValue)
        segmentIndex == findSegmentIndex(table, distance, 1)
    IN  IF segmentIndex + 1 > Len(path)
        THEN [kind |-> "TypeError"]
        ELSE LET segmentStartDist == table[segmentIndex]
                 \* a segmentEndDist of undefined gives the length NaN, for
                 \* which segmentLength > 0 is false
                 segmentLength ==
                     IF segmentIndex + 1 > Len(table) THEN 0
                     ELSE table[segmentIndex + 1] - segmentStartDist
             IN  [kind |-> "LatLng",
                  lat |-> alongSegment(path[segmentIndex].lat,
                                       path[segmentIndex + 1].lat, distance,
                                       segmentStartDist, segmentLength),
                  lng |-> alongSegment(path[segmentIndex].lng,
                                       path[segmentIndex + 1].lng, distance,
                                       segmentStartDist, segmentLength)]

(***************************************************************************)
(* getPointAtDistance, the target distance being a quotient                *)
(***************************************************************************)
\* the loop returns the end vertex of the segment, without interpolating
scanDistancesToVertex(path, table, target, i) ==
    IF \E j \in i..Len(table) : target.num <= table[j] * target.den
    THEN plainPoint(path[CHOOSE j \in i..Len(table) :
                             /\ target.num <= table[j] * target.den
                             /\ \A k \in i..(j - 1) :
                                    target.num > table[k] * target.den])
    ELSE plainPoint(path[Len(path)])

\* the loop for (let i = 1; i < distances.length; i++), the index counted
\* from 1
RECURSIVE scanDistances(_, _, _, _)
scanDistances(path, table, target, i) ==
    IF i > Len(table)
    THEN plainPoint(path[Len(path)])
    ELSE IF target.num <= table[i] * target.den
    THEN IF i > Len(path)
         THEN [kind |-> "TypeError"]
         ELSE [kind |-> "point",
               lat |-> alongSegment(path[i - 1].lat, path[i].lat, target,
                                    table[i - 1], table[i] - table[i - 1]),
               lng |-> alongSegment(path[i - 1].lng, path[i].lng, target,
                                    table[i - 1], table[i] - table[i - 1])]
    ELSE scanDistances(path, table, target, i + 1)

getPointAtDistance(path, table, target) ==
    IF Len(path) = 0
    THEN [kind |-> "null"]
    ELSE IF target.num <= 0 \/ Len(table) = 0
    THEN plainPoint(path[1])
    ELSE scanDistances(path, table, target, 2)

(***************************************************************************)
(* The animation frames of the progress marker.  The refs and the frames   *)
(* the browser holds are one record: visible (the marker), start and       *)
(* target (startProgressRef, targetProgressRef), frame (animationFrameRef, *)
(* 0 for null), pending (the frames requested and neither run nor          *)
(* cancelled), cleanup (the last run of the effect returned its cleanup).  *)
(***************************************************************************)
FrameIds == 1..MaxFrames

\* a call that cancels nothing
cancelNothing(frames, id) == frames

cancelAnimationFrame(frames, id) == frames \ {id}

\* if (animationFrameRef.current) cancelAnimationFrame(...)
cancelCurrent(refs) ==
    IF refs.frame # 0 THEN cancelAnimationFrame(refs.pending, refs.frame)
    ELSE refs.pending

\* the id requestAnimationFrame returns: one never returned before, here one
\* that is neither pending nor held by the ref
requestAnimationFrame(frames, held) ==
    CHOOSE id \in FrameIds \ (frames \cup {held}) :
        \A other \in FrameIds \ (frames \cup {held}) : id <= other

\* the cleanup the effect returned at its last run
runCleanup(refs) ==
    IF refs.cleanup THEN [refs EXCEPT !.pending = cancelCurrent(refs)]
    ELSE refs

\* the effect on [progress, routePath, cumulativeDistances, speedSegments,
\* map], its previous cleanup included
progressEffect(refs, progressNow, path, table) ==
    LET cleaned == runCleanup(refs)
    IN  IF Len(path) = 0 \/ Len(table) = 0
        THEN [cleaned EXCEPT !.cleanup = FALSE]
        ELSE IF progressNow = 0
        THEN [visible |-> FALSE, start |-> 0, target |-> 0, frame |-> 0,
              pending |-> cancelCurrent(cleaned), cleanup |-> FALSE]
        ELSE LET remaining == cancelCurrent(cleaned)
                 id == requestAnimationFrame(remaining, cleaned.frame)
             IN  [visible |-> TRUE, start |-> cleaned.target,
                  target |-> progressNow, frame |-> id,
                  pending |-> remaining \cup {id}, cleanup |-> TRUE]

VARIABLES
    \* ---- one invocation of calculateIdealStopovers ----
    pc,                     \* "idle", "awaitRoute", "awaitLegs", "geocoding", "done"
    maxStopovers,           \* the argument
    totalDuration,          \* parsed duration of the initial route
    idealSegments,
    maxSegments,
    evaluatedSegments,
    attempt,
    routeShape,
    routeReply,             \* "none" or the kind of the initial route answer
    stopoverCoords,
    legReply,               \* "none", "failed", "ok": the last leg-duration answer
    legDurations,           \* its durations when "ok"
    results,                \* locations geocoded so far
    settled,                \* "pending", "resolved", "rejected"
    returned,               \* the value the promise resolved to
    routeQueries,
    legQueries,
    geocodeQueries,
    intermediates,          \* waypoints of the last leg-duration query
    lastEvaluated,          \* candidates of the last answered leg-duration query
    \* ---- App.tsx ----
    origin,
    destination,
    stopovers,
    stopoverDurations,
    routeData,
    \* ---- JourneyPlanner ----
    isAutoSuggesting,
    \* ---- RouteRenderer ----
    routePath,
    cumulativeDistances,
    speedSegments,
    routeLegDurations,      \* the state legDurations of the renderer
    totalRouteDuration,
    inflight,               \* route computations awaiting their response
    requests,               \* route computations started so far
    lastRouteQuery,         \* intermediates of the last route computation
    answered,               \* the answer a route computation handled in the
                            \* last step, "none" after any other step
    \* ---- history ----
    cleanSinceReset,        \* a reset happened and no stopover was added and no
                            \* auto-suggestion was triggered since
    edits,                  \* stopovers replaced or removed so far
    \* ---- calls of the route geometry functions ----
    timedRoute,             \* the route last given to buildTimePoints
    timePoints,             \* the series it returned
    polyline,               \* the decoded polyline of a route
    distances,              \* its cumulative-distance table, <<>> before it
                            \* is built
    routeLegs,              \* legs of the route computeRoute handles
    routeDuration,          \* its duration field
    durationSeconds,        \* the total duration computeRoute reports
    builtSegments,          \* the speed segments it derives
    encoded,                \* an encoded polyline given to decodePolyline
    decodeOutcome,          \* "pending", then how the call ended
    decoded,                \* the points it returned
    series,                 \* a time series given to getPointAtTime
    targetTime,             \* the target time of its last call
    located,                \* the result of that call
    bracket,                \* the index at which that call left its loop
    givenSegments,          \* speed segments given to getPositionAtProgress
    prog,                   \* its progress argument
    targetDistance,         \* the distance it derives, NoDistance before the call
    animatorPosition,       \* what getPositionAtProgress returns for a route
    distancePoint,          \* what getPointAtDistance returns for its distance
    \* ---- the journey and the progress marker ----
    mounted,                \* the RouteRenderer is mounted
    hasPlaces,              \* origin and destination are selected
    hasRouteData,           \* App's routeData is not null
    isJourneyStarted,
    progress,               \* in units of 1 / JourneySeconds
    awaited,                \* computeRoute calls that await their response
    markerPath,             \* routePath, cumulativeDistances and
    markerDistances,        \* speedSegments as the progress effect and
    markerSegments,         \* animate see them
    markerVisible,
    startProgress,          \* startProgressRef, in units of 1 / JourneySeconds
    targetProgress,         \* targetProgressRef, likewise
    animationFrame,         \* animationFrameRef, 0 for null
    pendingFrames,          \* frames requested, neither run nor cancelled
    hasCleanup,             \* the last run of the progress effect returned
                            \* its cleanup
    tickOutcome,            \* how the last run of animate ended
    markerPosition,         \* the position it gave the marker
    displayedProgress,      \* the currentProgress of that position
    \* ---- auto-centering of the map on the marker ----
    autoCenterOnMarker,     \* App's state, as last rendered
    queuedToggles,          \* updates prev => !prev of it not rendered yet
    autoCenterActive,       \* autoCenterActiveRef
    prevAutoCenter,         \* prevAutoCenterRef
    mapTilt,                \* 0 or 60
    mapHeading,             \* "north" for 0, "marker" for the heading of the
                            \* marker (currentHeadingRef or the one animate
                            \* computes)
    turned,                 \* flips when animate turns the map
    burst,                  \* interaction events since the last render
    notices,                \* calls of onUserInteraction since the last render
    interacted,             \* an interaction ended auto-centering and the
                            \* user did not toggle it since
    \* ---- the FocusTimer and the rests of a journey ----
    stopoverPositions,      \* App's stopoverPositions, as the renderer reports them
    elapsedTime,            \* App's elapsedTime, in seconds
    timerElapsed,           \* the elapsedTime state of the FocusTimer
    completedStopovers,     \* its completedStopovers, indices counted from 1
    isResting,
    restTimeRemaining,      \* in seconds
    showRestCompleteDialog,
    completionDialogOpen,
    restLog,                \* the indices onRestStart was called with, in order
    \* ---- two invocations against one deterministic oracle ----
    invocation,             \* 0 before the first, then 1 and 2
    oracle,                 \* the pairs <<request, answer>> given so far
    requestLog,             \* the requests the current invocation issued
    firstLog,               \* the requests the first invocation issued
    firstReturned           \* what the first invocation returned

optVars == <<pc, maxStopovers, totalDuration, idealSegments, maxSegments,
             evaluatedSegments, attempt, routeShape, routeReply,
             stopoverCoords, legReply, legDurations, results, settled,
             returned,
             routeQueries, legQueries, geocodeQueries, intermediates,
             lastEvaluated>>

appVars == <<origin, destination, stopovers, stopoverDurations, routeData,
             isAutoSuggesting, cleanSinceReset, edits>>

rendererVars == <<routePath, cumulativeDistances, speedSegments,
                  routeLegDurations, totalRouteDuration, inflight, requests,
                  lastRouteQuery, answered>>

timeVars == <<timedRoute, timePoints>>
tableVars == <<polyline, distances>>
segmentVars == <<routeLegs, routeDuration, durationSeconds, builtSegments>>
decodeVars == <<encoded, decodeOutcome, decoded>>
locateVars == <<series, targetTime, located, bracket>>
travelVars == <<givenSegments, prog, targetDistance>>
positionVars == <<animatorPosition, distancePoint>>
pureVars == <<timeVars, tableVars, segmentVars, decodeVars, locateVars,
              travelVars, positionVars>>
journeyVars == <<mounted, hasPlaces, hasRouteData, isJourneyStarted, progress,
                 awaited>>
markerRouteVars == <<markerPath, markerDistances, markerSegments>>
refVars == <<markerVisible, startProgress, targetProgress, animationFrame,
             pendingFrames, hasCleanup>>
centerVars == <<autoCenterOnMarker, queuedToggles, autoCenterActive,
                prevAutoCenter, mapTilt, mapHeading, turned, burst, notices,
                interacted>>
tickVars == <<tickOutcome, markerPosition, displayedProgress, centerVars>>
restVars == <<stopoverPositions, elapsedTime, timerElapsed, completedStopovers,
              isResting, restTimeRemaining, showRestCompleteDialog,
              completionDialogOpen, restLog>>
animVars == <<journeyVars, markerRouteVars, refVars, tickVars, restVars>>
twinVars == <<invocation, oracle, requestLog, firstLog, firstReturned>>
calcVars == <<pureVars, animVars, twinVars>>

vars == <<optVars, appVars, rendererVars, calcVars>>

(***************************************************************************)
(* calculateIdealStopovers                                                 *)
(***************************************************************************)
\* the promise settles with a value: a return statement of the function
Resolve(value) ==
    /\ pc' = "done"
    /\ settled' = "resolved"
    /\ returned' = value

\* the error leaves the function: the promise rejects
CatchBlockRethrow ==
    /\ pc' = "done"
    /\ settled' = "rejected"
    /\ returned' = <<>>

\* an error thrown inside the try block: the catch block returns []
CatchBlock == Resolve(<<>>)

\* after the loop: nothing to geocode returns [], otherwise the first
\* reverse-geocoding request of geocodeStopoverCoordinates goes out
AfterLoop(coords) ==
    IF Len(coords) = 0
    THEN /\ Resolve(<<>>)
         /\ UNCHANGED geocodeQueries
    ELSE /\ pc' = "geocoding"
         /\ geocodeQueries' = geocodeQueries + 1
         /\ UNCHANGED <<settled, returned>>

\* no bound on the attempts
loopContinuesAlways(att) == TRUE

\* the attempts of the earlier invocation count too
loopContinuesAcrossCalls(att) ==
    att + Cardinality({i \in 1..Len(firstLog) : firstLog[i].kind = "legs"})
        < MAX_ATTEMPTS

\* the loop condition
loopContinues(att) == att < MAX_ATTEMPTS

\* the for loop from the head of attempt att with segs segments up to the
\* next await (the leg-duration query) or to the end of the loop
LoopHead(att, segs, duration, shape) ==
    /\ attempt' = att
    /\ evaluatedSegments' = segs
    /\ IF ~loopContinues(att)
       THEN /\ stopoverCoords' = stopoverCoords
            /\ AfterLoop(stopoverCoords)
            /\ UNCHANGED <<legQueries, intermediates>>
       ELSE LET stopCount == Max(segs - 1, 0)
                coords == generateStopoverCoordinates(segs, duration, shape)
            IN  IF stopCount = 0 \/ Len(coords) < stopCount
                THEN /\ stopoverCoords' = <<>>
                     /\ AfterLoop(<<>>)
                     /\ UNCHANGED <<legQueries, intermediates>>
                ELSE /\ stopoverCoords' = coords
                     /\ pc' = "awaitLegs"
                     /\ legQueries' = legQueries + 1
                     /\ intermediates' = coords
                     /\ UNCHANGED <<settled, returned, geocodeQueries>>

\* the call: the initial route request goes out
Call(arg) ==
    /\ pc' = "awaitRoute"
    /\ maxStopovers' = arg
    /\ totalDuration' = Num(0)
    /\ idealSegments' = 0
    /\ maxSegments' = 0
    /\ evaluatedSegments' = 0
    /\ attempt' = 0
    /\ routeShape' = "degenerate"
    /\ routeReply' = "none"
    /\ stopoverCoords' = <<>>
    /\ legReply' = "none"
    /\ legDurations' = <<>>
    /\ results' = <<>>
    /\ settled' = "pending"
    /\ returned' = <<>>
    /\ routeQueries' = 1
    /\ legQueries' = 0
    /\ geocodeQueries' = 0
    /\ intermediates' = <<>>
    /\ lastEvaluated' = <<>>

\* answers to the initial route request
RouteFailures == {[kind |-> "http_error"], [kind |-> "throw"], [kind |-> "no_routes"]}
RouteAnswers(fields) ==
    [kind : {"route"}, duration : fields, shape : RouteShapes]

RouteResponse(answers) ==
    /\ pc = "awaitRoute"
    /\ \E answer \in answers :
        /\ UNCHANGED <<maxStopovers, legReply, legDurations, results,
                       routeQueries, lastEvaluated>>
        /\ routeReply' = answer.kind
        /\ IF answer.kind \in {"http_error", "throw"}
           THEN /\ CatchBlock
                /\ UNCHANGED <<totalDuration, idealSegments, maxSegments,
                               evaluatedSegments, attempt, routeShape,
                               stopoverCoords, legQueries, geocodeQueries,
                               intermediates>>
           ELSE IF answer.kind = "no_routes"
           THEN /\ Resolve(<<>>)
                /\ UNCHANGED <<totalDuration, idealSegments, maxSegments,
                               evaluatedSegments, attempt, routeShape,
                               stopoverCoords, legQueries, geocodeQueries,
                               intermediates>>
           ELSE LET duration == parseDurationSeconds(answer.duration)
                    ideal == getIdealSegmentCount(duration)
                    normalizedMaxStopovers == normalizeMaxStopovers(maxStopovers)
                    potentialStopovers == Max(ideal - 1, 0)
                    numberOfStopovers == Min(potentialStopovers, normalizedMaxStopovers)
                    segsLimit == Min(normalizedMaxStopovers + 1, MAX_AUTO_STOP_OVERS + 1)
                IN  /\ totalDuration' = duration
                    /\ idealSegments' = ideal
                    /\ routeShape' = answer.shape
                    /\ IF numberOfStopovers <= 0
                          \/ (IsFinite(duration) /\ duration.val <= 0)
                       THEN /\ Resolve(<<>>)
                            /\ UNCHANGED <<maxSegments, evaluatedSegments,
                                           attempt, stopoverCoords, legQueries,
                                           geocodeQueries, intermediates>>
                       ELSE /\ maxSegments' = segsLimit
                            /\ LoopHead(0, Min(Max(ideal, 1), segsLimit),
                                        duration.val, answer.shape)

\* answers to a leg-duration query
LegFailures == {[kind |-> "http_error", legs |-> <<>>],
                [kind |-> "throw", legs |-> <<>>],
                [kind |-> "no_legs", legs |-> <<>>]}
LegAnswers(fields) ==
    [kind : {"legs"},
     legs : UNION {[1..n -> fields] : n \in 1..MaxLegs}]

\* evaluateLegDurations: the durations, or <<>> standing for null
evaluateLegDurations(answer) ==
    IF answer.kind # "legs" \/ Len(answer.legs) = 0
    THEN <<>>
    ELSE LET durations == [i \in 1..Len(answer.legs) |->
                              parseDurationSeconds(answer.legs[i])]
         IN  IF \A i \in 1..Len(durations) : IsFinite(durations[i])
             THEN [i \in 1..Len(durations) |-> durations[i].val]
             ELSE <<>>

allWithinRange(durations) ==
    \A i \in 1..Len(durations) :
        /\ durations[i] >= MIN_IDEAL_SEGMENT_SECONDS
        /\ durations[i] <= MAX_IDEAL_SEGMENT_SECONDS
hasOverMax(durations) ==
    \E i \in 1..Len(durations) : durations[i] > MAX_IDEAL_SEGMENT_SECONDS
hasUnderMin(durations) ==
    \E i \in 1..Len(durations) : durations[i] < MIN_IDEAL_SEGMENT_SECONDS

\* grows without looking at the ceiling
canGrowUnchecked(durations, segs, limit) ==
    hasOverMax(durations)

\* grows only when no leg is too short
canGrowUnlessShort(durations, segs, limit) ==
    hasOverMax(durations) /\ ~hasUnderMin(durations) /\ segs < limit

\* more, shorter legs: a leg is too long and the ceiling is not reached
canGrow(durations, segs, limit) ==
    hasOverMax(durations) /\ segs < limit

\* shrinks without looking at the route's duration
canShrinkUnchecked(durations, segs, duration) ==
    hasUnderMin(durations)

\* fewer, longer legs: a leg is too short and the maximum still allows it
canShrink(durations, segs, duration) ==
    hasUnderMin(durations) /\ segs > MathCeil(duration, MAX_IDEAL_SEGMENT_SECONDS)

LegResponse(answers) ==
    /\ pc = "awaitLegs"
    /\ \E answer \in answers :
        LET durations == evaluateLegDurations(answer)
            break == /\ AfterLoop(stopoverCoords)
                     /\ UNCHANGED <<attempt, evaluatedSegments, stopoverCoords,
                                    legQueries, intermediates>>
        IN  /\ UNCHANGED <<maxStopovers, totalDuration, idealSegments,
                           maxSegments, routeShape, routeReply, results,
                           routeQueries>>
            /\ legDurations' = durations
            /\ IF Len(durations) = 0
               THEN /\ legReply' = "failed"
                    /\ UNCHANGED lastEvaluated
                    /\ break
               ELSE /\ legReply' = "ok"
                    /\ lastEvaluated' = stopoverCoords
                    /\ IF allWithinRange(durations)
                       THEN break
                       ELSE IF canGrow(durations, evaluatedSegments, maxSegments)
                       THEN LoopHead(attempt + 1, evaluatedSegments + 1,
                                     totalDuration.val, routeShape)
                       ELSE IF canShrink(durations, evaluatedSegments,
                                         totalDuration.val)
                       THEN LoopHead(attempt + 1, Max(evaluatedSegments - 1, 1),
                                     totalDuration.val, routeShape)
                       ELSE break

\* geocodeStopoverCoordinates: the answer to the pending reverse-geocoding
\* request; a failed call or an answer without address gets the stop label
GeocodeOutcomes == {"address", "no_result", "throw"}

\* the labels count the stops from 0
answerGeocodeFromZero(outcome) ==
    LET index == Len(results) + 1
        point == stopoverCoords[index]
        address == IF outcome = "address" THEN FormattedAddress
                   ELSE StopLabel(index - 1)
        extended == Append(results, Place(point, address))
    IN  /\ results' = extended
        /\ IF index = Len(stopoverCoords)
           THEN /\ Resolve(extended)
                /\ UNCHANGED geocodeQueries
           ELSE /\ geocodeQueries' = geocodeQueries + 1
                /\ UNCHANGED <<pc, settled, returned>>
        /\ UNCHANGED <<maxStopovers, totalDuration, idealSegments,
                       maxSegments, evaluatedSegments, attempt, routeShape,
                       routeReply, stopoverCoords, legReply, legDurations,
                       routeQueries, legQueries, intermediates,
                       lastEvaluated>>

\* one pass of the loop over the coordinates: the entry pushed for the
\* answer, and the return after the last one
answerGeocode(outcome) ==
    LET index == Len(results) + 1
        point == stopoverCoords[index]
        address == IF outcome = "address" THEN FormattedAddress
                   ELSE StopLabel(index)
        extended == Append(results, Place(point, address))
    IN  /\ results' = extended
        /\ IF index = Len(stopoverCoords)
           THEN /\ Resolve(extended)
                /\ UNCHANGED geocodeQueries
           ELSE /\ geocodeQueries' = geocodeQueries + 1
                /\ UNCHANGED <<pc, settled, returned>>
        /\ UNCHANGED <<maxStopovers, totalDuration, idealSegments,
                       maxSegments, evaluatedSegments, attempt, routeShape,
                       routeReply, stopoverCoords, legReply, legDurations,
                       routeQueries, legQueries, intermediates,
                       lastEvaluated>>

GeocodeResponse(outcomes) ==
    /\ pc = "geocoding"
    /\ \E outcome \in outcomes :
        /\ outcome # "address" => Len(results) + 1 <= MaxFailingStop
        /\ answerGeocode(outcome)

\* the caller has taken the settled promise's value: the frame is gone
ReturnToCaller ==
    /\ pc' = "idle"
    /\ maxStopovers' = ArgAbsent
    /\ totalDuration' = Num(0)
    /\ idealSegments' = 0
    /\ maxSegments' = 0
    /\ evaluatedSegments' = 0
    /\ attempt' = 0
    /\ routeShape' = "degenerate"
    /\ routeReply' = "none"
    /\ stopoverCoords' = <<>>
    /\ legReply' = "none"
    /\ legDurations' = <<>>
    /\ results' = <<>>
    /\ settled' = "pending"
    /\ returned' = <<>>
    /\ routeQueries' = 0
    /\ legQueries' = 0
    /\ geocodeQueries' = 0
    /\ intermediates' = <<>>
    /\ lastEvaluated' = <<>>

InitCall ==
    /\ pc = "idle"
    /\ maxStopovers = ArgAbsent
    /\ totalDuration = Num(0)
    /\ idealSegments = 0
    /\ maxSegments = 0
    /\ evaluatedSegments = 0
    /\ attempt = 0
    /\ routeShape = "degenerate"
    /\ routeReply = "none"
    /\ stopoverCoords = <<>>
    /\ legReply = "none"
    /\ legDurations = <<>>
    /\ results = <<>>
    /\ settled = "pending"
    /\ returned = <<>>
    /\ routeQueries = 0
    /\ legQueries = 0
    /\ geocodeQueries = 0
    /\ intermediates = <<>>
    /\ lastEvaluated = <<>>

(***************************************************************************)
(* RouteRenderer: the route effect and computeRoute                        *)
(***************************************************************************)
\* the route a table was derived from; NoRoute is the empty table
NoRoute == [origin |-> NullLocation, destination |-> NullLocation, via |-> <<>>]
RouteOf(request) ==
    [origin |-> request.origin, destination |-> request.destination,
     via |-> request.intermediates]

\* the stopovers that become intermediate waypoints
RECURSIVE Intermediates(_)
Intermediates(list) ==
    IF list = <<>> THEN <<>>
    ELSE LET rest == Intermediates(Tail(list))
             stopover == Head(list)
         IN  IF stopover.lat # 0 /\ stopover.lng # 0
             THEN <<Coord(stopover.lat, stopover.lng)>> \o rest
             ELSE rest

\* the effect on [origin, destination, map, onRouteCalculated, apiKey,
\* stopovers], run with the props o, d, s of the new render
RouteEffect(o, d, s) ==
    /\ answered' = "none"
    /\ IF o = NullLocation \/ d = NullLocation
       THEN /\ routePath' = NoRoute
            /\ cumulativeDistances' = NoRoute
            /\ speedSegments' = NoRoute
            /\ routeLegDurations' = NoRoute
            /\ totalRouteDuration' = NoRoute
            /\ UNCHANGED <<inflight, requests, lastRouteQuery>>
       ELSE /\ requests < MaxRequests
            /\ requests' = requests + 1
            /\ inflight' = inflight \cup
                   {[id |-> requests + 1, origin |-> o, destination |-> d,
                     intermediates |-> Intermediates(s)]}
            /\ lastRouteQuery' = Intermediates(s)
            /\ UNCHANGED <<routePath, cumulativeDistances, speedSegments,
                           routeLegDurations, totalRouteDuration>>

\* the catch block of computeRoute
ComputeRouteCatch ==
    /\ routeLegDurations' = NoRoute
    /\ totalRouteDuration' = NoRoute

\* how a route computation can be answered: a route; a non-2xx status; a
\* transport error; a response without routes; a route without duration
\* (route.duration.match throws after the path and the distances are set)
ComputeAnswers == {"route", "http_error", "throw", "no_routes", "no_duration"}

\* the response to a route computation arrives and the rest of computeRoute
\* runs (with speed limits disabled fetchSpeedLimitsForRoute resolves at once)
RouteComputed ==
    \E request \in inflight, answer \in ComputeAnswers :
        /\ inflight' = inflight \ {request}
        /\ answered' = answer
        /\ UNCHANGED <<requests, lastRouteQuery>>
        /\ UNCHANGED <<origin, destination, stopovers, stopoverDurations,
                       isAutoSuggesting, cleanSinceReset, edits>>
        /\ UNCHANGED <<optVars, calcVars>>
        /\ CASE answer = "route" ->
                  /\ routePath' = RouteOf(request)
                  /\ cumulativeDistances' = RouteOf(request)
                  /\ totalRouteDuration' = RouteOf(request)
                  /\ routeLegDurations' = RouteOf(request)
                  /\ speedSegments' = RouteOf(request)
                  /\ routeData' = RouteOf(request)
             [] answer \in {"http_error", "throw"} ->
                  /\ ComputeRouteCatch
                  /\ UNCHANGED <<routePath, cumulativeDistances, speedSegments,
                                 routeData>>
             [] answer = "no_routes" ->
                  UNCHANGED <<routePath, cumulativeDistances, speedSegments,
                              routeLegDurations, totalRouteDuration, routeData>>
             [] answer = "no_duration" ->
                  /\ routePath' = RouteOf(request)
                  /\ cumulativeDistances' = RouteOf(request)
                  /\ ComputeRouteCatch
                  /\ UNCHANGED <<speedSegments, routeData>>

(***************************************************************************)
(* App, LocationInputs and JourneyPlanner                                  *)
(***************************************************************************)
RemoveAt(list, index) ==
    [i \in 1..(Len(list) - 1) |-> IF i < index THEN list[i] ELSE list[i + 1]]

\* the rows of the stopover list the user edits: the first and the last
EditedRows(list) == {1, Len(list)} \cap (1..Len(list))

\* onOriginSelect = setOrigin
SelectOrigin ==
    /\ origin' = PickedOrigin
    /\ RouteEffect(PickedOrigin, destination, stopovers)
    /\ UNCHANGED <<destination, stopovers, stopoverDurations, routeData,
                   isAutoSuggesting, cleanSinceReset, edits>>
    /\ UNCHANGED <<optVars, calcVars>>

\* onDestinationSelect = setDestination
SelectDestination ==
    /\ destination' = PickedDestination
    /\ RouteEffect(origin, PickedDestination, stopovers)
    /\ UNCHANGED <<origin, stopovers, stopoverDurations, routeData,
                   isAutoSuggesting, cleanSinceReset, edits>>
    /\ UNCHANGED <<optVars, calcVars>>

\* no limit on the manual stopovers
addStopoverUnlimited ==
    /\ stopovers' = Append(stopovers, ZeroLocation)
    /\ stopoverDurations' = Append(stopoverDurations, DEFAULT_REST_MINUTES)
    /\ cleanSinceReset' = FALSE
    /\ RouteEffect(origin, destination, stopovers')
    /\ UNCHANGED <<origin, destination, routeData, isAutoSuggesting, edits>>
    /\ UNCHANGED <<optVars, calcVars>>

addStopover ==
    /\ Len(stopovers) < MAX_MANUAL_STOPOVERS
    /\ stopovers' = Append(stopovers, ZeroLocation)
    /\ stopoverDurations' = Append(stopoverDurations, DEFAULT_REST_MINUTES)
    /\ cleanSinceReset' = FALSE
    /\ RouteEffect(origin, destination, stopovers')
    /\ UNCHANGED <<origin, destination, routeData, isAutoSuggesting, edits>>
    /\ UNCHANGED <<optVars, calcVars>>

removeStopover ==
    \E index \in EditedRows(stopovers) :
        /\ edits < MaxEdits
        /\ edits' = edits + 1
        /\ stopovers' = RemoveAt(stopovers, index)
        /\ stopoverDurations' =
              IF index <= Len(stopoverDurations)
              THEN RemoveAt(stopoverDurations, index)
              ELSE stopoverDurations
        /\ RouteEffect(origin, destination, stopovers')
        /\ UNCHANGED <<origin, destination, routeData, isAutoSuggesting,
                       cleanSinceReset>>
        /\ UNCHANGED <<optVars, calcVars>>

updateStopover ==
    \E index \in EditedRows(stopovers) :
        /\ edits < MaxEdits
        /\ edits' = edits + 1
        /\ stopovers' = [stopovers EXCEPT ![index] = PickedStopover]
        /\ RouteEffect(origin, destination, stopovers')
        /\ UNCHANGED <<origin, destination, stopoverDurations, routeData,
                       isAutoSuggesting, cleanSinceReset>>
        /\ UNCHANGED <<optVars, calcVars>>

\* handleAutoSuggest up to its await; the button is rendered while
\* canAutoSuggest holds and is disabled while isAutoSuggesting
handleAutoSuggest ==
    /\ origin # NullLocation
    /\ destination # NullLocation
    /\ Len(stopovers) = 0
    /\ ~isAutoSuggesting
    /\ pc = "idle"
    /\ isAutoSuggesting' = TRUE
    /\ cleanSinceReset' = FALSE
    /\ Call(ArgAbsent)
    /\ UNCHANGED <<origin, destination, stopovers, stopoverDurations, routeData,
                   edits>>
    /\ UNCHANGED <<rendererVars, calcVars>>

\* handleAutoSuggest after its await
AutoSuggestSettled ==
    /\ pc = "done"
    /\ ReturnToCaller
    /\ isAutoSuggesting' = FALSE
    /\ IF settled = "resolved" /\ Len(returned) > 0
       THEN /\ stopovers' = returned
            /\ stopoverDurations' =
                  [i \in 1..Len(returned) |-> DEFAULT_REST_MINUTES]
            /\ RouteEffect(origin, destination, returned)
       ELSE UNCHANGED <<stopovers, stopoverDurations, rendererVars>>
    /\ UNCHANGED <<origin, destination, routeData, cleanSinceReset, edits>>
    /\ UNCHANGED calcVars

handleResetJourney ==
    /\ origin' = NullLocation
    /\ destination' = NullLocation
    /\ stopovers' = <<>>
    /\ stopoverDurations' = <<>>
    /\ routeData' = NoRoute
    /\ cleanSinceReset' = TRUE
    /\ RouteEffect(NullLocation, NullLocation, <<>>)
    /\ UNCHANGED <<isAutoSuggesting, edits>>
    /\ UNCHANGED <<optVars, calcVars>>

InitApp ==
    /\ origin = NullLocation
    /\ destination = NullLocation
    /\ stopovers = <<>>
    /\ stopoverDurations = <<>>
    /\ routeData = NoRoute
    /\ isAutoSuggesting = FALSE
    /\ routePath = NoRoute
    /\ cumulativeDistances = NoRoute
    /\ speedSegments = NoRoute
    /\ routeLegDurations = NoRoute
    /\ totalRouteDuration = NoRoute
    /\ inflight = {}
    /\ requests = 0
    /\ lastRouteQuery = <<>>
    /\ answered = "none"
    /\ cleanSinceReset = FALSE
    /\ edits = 0

\* no call of a route geometry function
InitTimeVars ==
    /\ timedRoute = <<>>
    /\ timePoints = <<>>

InitTableVars ==
    /\ polyline = <<>>
    /\ distances = <<>>

InitSegmentVars ==
    /\ routeLegs = <<>>
    /\ routeDuration = FieldNoMatch
    /\ durationSeconds = 0
    /\ builtSegments = <<>>

InitDecodeVars ==
    /\ encoded = <<>>
    /\ decodeOutcome = "pending"
    /\ decoded = <<>>

InitLocateVars ==
    /\ series = <<>>
    /\ targetTime = 0
    /\ located = [kind |-> "pending"]
    /\ bracket = 0

InitTravelVars ==
    /\ givenSegments = <<>>
    /\ prog = Quotient(0, 1)
    /\ targetDistance = NoDistance

\* the RouteRenderer is mounted with the map; the marker is created hidden
\* the states of App and of the FocusTimer before a journey;
\* stopoverPositions is the list before any report of the renderer
InitRestVars ==
    /\ stopoverPositions = [kind |-> "list", values |-> <<>>]
    /\ elapsedTime = 0
    /\ timerElapsed = 0
    /\ completedStopovers = {}
    /\ isResting = FALSE
    /\ restTimeRemaining = 0
    /\ showRestCompleteDialog = FALSE
    /\ completionDialogOpen = FALSE
    /\ restLog = <<>>

\* auto-centering is off and the map is flat and heads north
InitCenterVars ==
    /\ autoCenterOnMarker = FALSE
    /\ queuedToggles = 0
    /\ autoCenterActive = FALSE
    /\ prevAutoCenter = FALSE
    /\ mapTilt = 0
    /\ mapHeading = "north"
    /\ turned = FALSE
    /\ burst = 0
    /\ notices = 0
    /\ interacted = FALSE

InitAnimVars ==
    /\ InitRestVars
    /\ InitCenterVars
    /\ mounted = TRUE
    /\ hasPlaces = FALSE
    /\ hasRouteData = FALSE
    /\ isJourneyStarted = FALSE
    /\ progress = 0
    /\ awaited = 0
    /\ markerPath = <<>>
    /\ markerDistances = <<>>
    /\ markerSegments = <<>>
    /\ markerVisible = FALSE
    /\ startProgress = 0
    /\ targetProgress = 0
    /\ animationFrame = 0
    /\ pendingFrames = {}
    /\ hasCleanup = FALSE
    /\ tickOutcome = "none"
    /\ markerPosition = [kind |-> "none"]
    /\ displayedProgress = Quotient(0, 1)

InitPositionVars ==
    /\ animatorPosition = [kind |-> "pending"]
    /\ distancePoint = [kind |-> "pending"]

InitTwinVars ==
    /\ invocation = 0
    /\ oracle = {}
    /\ requestLog = <<>>
    /\ firstLog = <<>>
    /\ firstReturned = <<>>

InitCalc ==
    /\ InitTimeVars
    /\ InitTableVars
    /\ InitSegmentVars
    /\ InitDecodeVars
    /\ InitLocateVars
    /\ InitTravelVars
    /\ InitAnimVars
    /\ InitTwinVars
    /\ InitPositionVars
    /\ InitDecodeVars
    /\ InitLocateVars
    /\ InitTravelVars

(***************************************************************************)
(* SpecOpt: a caller of calculateIdealStopovers                            *)
(***************************************************************************)
OptArguments ==
    {ArgAbsent, ArgNaN, ArgInfinity, ArgNumber(-2), ArgNumber(0), ArgNumber(1),
     ArgNumber(5), ArgNumber(60)}

OptDurationFields ==
    {FieldMissing, FieldNoMatch, FieldDots} \cup
    {FieldSeconds(n) : n \in {0, 1000, 1500, 2249, 2250, 5400, 34500}}

OptLegFields ==
    {FieldDots} \cup {FieldSeconds(n) : n \in {1199, 1200, 1800, 1801}}

\* a caller other than the planner, which may pass any maxStopovers
Invoke(arguments) ==
    /\ pc \in {"idle", "done"}
    /\ \E arg \in arguments : Call(arg)

OptInvoke ==
    /\ Invoke(OptArguments)
    /\ UNCHANGED <<appVars, rendererVars, calcVars>>

OptRouteResponse ==
    /\ RouteResponse(RouteFailures \cup RouteAnswers(OptDurationFields))
    /\ UNCHANGED <<appVars, rendererVars, calcVars>>

OptLegResponse ==
    /\ LegResponse(LegFailures \cup LegAnswers(OptLegFields))
    /\ UNCHANGED <<appVars, rendererVars, calcVars>>

OptGeocodeResponse ==
    /\ GeocodeResponse(GeocodeOutcomes)
    /\ UNCHANGED <<appVars, rendererVars, calcVars>>

InitOpt == InitCall /\ InitApp /\ InitCalc

NextOpt ==
    \/ OptInvoke
    \/ OptRouteResponse
    \/ OptLegResponse
    \/ OptGeocodeResponse

SpecOpt == InitOpt /\ [][NextOpt]_vars

(***************************************************************************)
(* SpecGeocode: geocodeStopoverCoordinates on accepted coordinate lists of *)
(* up to MaxLegs + 1 stops, any geocoding call failing                     *)
(***************************************************************************)
GeocodedCoords == {Coord(1, 2), Coord(1, 3), Coord(2, 3)}

RECURSIVE CoordLists(_)
CoordLists(n) ==
    IF n = 0 THEN {<<>>}
    ELSE {Append(list, c) : list \in CoordLists(n - 1), c \in GeocodedCoords}

AcceptedLists == UNION {CoordLists(n) : n \in 1..(MaxLegs + 1)}

InitGeocode ==
    /\ pc = "geocoding"
    /\ maxStopovers = ArgAbsent
    /\ totalDuration = Num(0)
    /\ idealSegments = 0
    /\ maxSegments = 0
    /\ evaluatedSegments = 0
    /\ attempt = 0
    /\ routeShape = "timed"
    /\ routeReply = "none"
    /\ stopoverCoords \in AcceptedLists
    /\ legReply = "none"
    /\ legDurations = <<>>
    /\ results = <<>>
    /\ settled = "pending"
    /\ returned = <<>>
    /\ routeQueries = 0
    /\ legQueries = 0
    /\ geocodeQueries = 1
    /\ intermediates = <<>>
    /\ lastEvaluated = <<>>
    /\ InitApp
    /\ InitCalc

AnyGeocodeResponse ==
    /\ pc = "geocoding"
    /\ \E outcome \in GeocodeOutcomes : answerGeocode(outcome)
    /\ UNCHANGED <<appVars, rendererVars, calcVars>>

NextGeocode == AnyGeocodeResponse

SpecGeocode == InitGeocode /\ [][NextGeocode]_vars

(***************************************************************************)
(* SpecTwin: calculateIdealStopovers invoked twice with the same arguments *)
(* against an oracle that answers a request it has seen as it did before   *)
(***************************************************************************)
TwinArguments == {ArgAbsent, ArgNumber(1), ArgNumber(5)}
TwinDurationFields == {FieldSeconds(n) : n \in {1000, 5400, 34500}}
\* legs all too short, all in range, all too long, and one of each kind
TwinLegAnswers ==
    {[kind |-> "legs", legs |-> <<FieldSeconds(1199)>>],
     [kind |-> "legs", legs |-> <<FieldSeconds(1500)>>],
     [kind |-> "legs", legs |-> <<FieldSeconds(1801)>>],
     [kind |-> "legs", legs |-> <<FieldSeconds(1199), FieldSeconds(1801)>>]}

\* the request a pending await stands for: the fetch of part_001:79-109,
\* of evaluateLegDurations or of geocodeStopoverCoordinates
pendingRequest(at, via, coords, done) ==
    IF at = "awaitRoute" THEN [kind |-> "route", via |-> <<>>]
    ELSE IF at = "awaitLegs" THEN [kind |-> "legs", via |-> via]
    ELSE [kind |-> "geocode", via |-> <<coords[Len(done) + 1]>>]

\* what the oracle may answer to a request: what it answered before
answersTo(request, answers) ==
    IF \E pair \in oracle : pair[1] = request
    THEN {pair[2] : pair \in {q \in oracle : q[1] = request}}
    ELSE answers

\* the answer is remembered; the request that follows it is logged
Answered(request, answer) ==
    /\ oracle' = oracle \cup {<<request, answer>>}
    /\ requestLog' =
           IF pc' \in {"awaitLegs", "geocoding"}
           THEN Append(requestLog,
                       pendingRequest(pc', intermediates', stopoverCoords',
                                      results'))
           ELSE requestLog
    /\ UNCHANGED <<invocation, firstLog, firstReturned>>

TwinFirstCall ==
    /\ invocation = 0
    /\ pc = "idle"
    /\ \E arg \in TwinArguments : Call(arg)
    /\ invocation' = 1
    /\ requestLog' = <<pendingRequest("awaitRoute", <<>>, <<>>, <<>>)>>
    /\ UNCHANGED <<oracle, firstLog, firstReturned>>
    /\ UNCHANGED <<appVars, rendererVars, pureVars, animVars>>

\* the same arguments again, once the first invocation has returned
TwinSecondCall ==
    /\ invocation = 1
    /\ pc = "done"
    /\ Call(maxStopovers)
    /\ invocation' = 2
    /\ firstLog' = requestLog
    /\ firstReturned' = returned
    /\ requestLog' = <<pendingRequest("awaitRoute", <<>>, <<>>, <<>>)>>
    /\ UNCHANGED oracle
    /\ UNCHANGED <<appVars, rendererVars, pureVars, animVars>>

TwinRouteResponse ==
    /\ pc = "awaitRoute"
    /\ LET request == pendingRequest(pc, intermediates, stopoverCoords, results)
       IN  \E answer \in answersTo(request,
                                   RouteFailures \cup RouteAnswers(TwinDurationFields)) :
               /\ RouteResponse({answer})
               /\ Answered(request, answer)
    /\ UNCHANGED <<appVars, rendererVars, pureVars, animVars>>

TwinLegResponse ==
    /\ pc = "awaitLegs"
    /\ LET request == pendingRequest(pc, intermediates, stopoverCoords, results)
       IN  \E answer \in answersTo(request,
                                   LegFailures \cup TwinLegAnswers) :
               /\ LegResponse({answer})
               /\ Answered(request, answer)
    /\ UNCHANGED <<appVars, rendererVars, pureVars, animVars>>

TwinGeocodeResponse ==
    /\ pc = "geocoding"
    /\ LET request == pendingRequest(pc, intermediates, stopoverCoords, results)
       IN  \E answer \in answersTo(request,
                                   {[kind |-> o] : o \in GeocodeOutcomes}) :
               /\ GeocodeResponse({answer.kind})
               /\ Answered(request, answer)
    /\ UNCHANGED <<appVars, rendererVars, pureVars, animVars>>

InitTwin == InitCall /\ InitApp /\ InitCalc

NextTwin ==
    \/ TwinFirstCall
    \/ TwinSecondCall
    \/ TwinRouteResponse
    \/ TwinLegResponse
    \/ TwinGeocodeResponse

SpecTwin == InitTwin /\ [][NextTwin]_vars

(***************************************************************************)
(* SpecLoop: the refinement loop of calculateIdealStopovers on routes of   *)
(* 1000 s, 5400 s and 34500 s, every request being answered                *)
(***************************************************************************)
LoopArguments == {ArgAbsent, ArgNumber(5)}

LoopDurationFields == {FieldSeconds(n) : n \in {1000, 5400, 34500}}

LoopLegFields == {FieldSeconds(n) : n \in {1199, 1500, 1801}}

LoopInvoke ==
    /\ Invoke(LoopArguments)
    /\ UNCHANGED <<appVars, rendererVars, calcVars>>

LoopRouteResponse ==
    /\ RouteResponse(RouteFailures \cup RouteAnswers(LoopDurationFields))
    /\ UNCHANGED <<appVars, rendererVars, calcVars>>

LoopLegResponse ==
    /\ LegResponse(LegFailures \cup LegAnswers(LoopLegFields))
    /\ UNCHANGED <<appVars, rendererVars, calcVars>>

LoopGeocodeResponse ==
    /\ GeocodeResponse(GeocodeOutcomes)
    /\ UNCHANGED <<appVars, rendererVars, calcVars>>

NextLoop ==
    \/ LoopInvoke
    \/ LoopRouteResponse
    \/ LoopLegResponse
    \/ LoopGeocodeResponse

\* every request is eventually answered
SpecLoop ==
    /\ InitOpt
    /\ [][NextLoop]_vars
    /\ WF_vars(LoopRouteResponse)
    /\ WF_vars(LoopLegResponse)
    /\ WF_vars(LoopGeocodeResponse)

(***************************************************************************)
(* SpecApp: the application                                                *)
(***************************************************************************)
AppDurationFields == {FieldSeconds(34500)}
AppRouteAnswers ==
    {[kind |-> "http_error"]} \cup
    [kind : {"route"}, duration : AppDurationFields, shape : {"timed"}]
AppLegAnswers ==
    {[kind |-> "http_error", legs |-> <<>>]} \cup
    {[kind |-> "legs", legs |-> <<FieldSeconds(n)>>] : n \in {1500, 1801}}

AppRouteResponse ==
    /\ RouteResponse(AppRouteAnswers)
    /\ UNCHANGED <<appVars, rendererVars, calcVars>>

AppLegResponse ==
    /\ LegResponse(AppLegAnswers)
    /\ UNCHANGED <<appVars, rendererVars, calcVars>>

AppGeocodeResponse ==
    /\ GeocodeResponse({"address"})
    /\ UNCHANGED <<appVars, rendererVars, calcVars>>

NextApp ==
    \/ SelectOrigin
    \/ SelectDestination
    \/ addStopover
    \/ removeStopover
    \/ updateStopover
    \/ handleAutoSuggest
    \/ AppRouteResponse
    \/ AppLegResponse
    \/ AppGeocodeResponse
    \/ AutoSuggestSettled
    \/ handleResetJourney

SpecApp == InitOpt /\ [][NextApp]_vars

(***************************************************************************)
(* SpecRender: the renderer's route computations under manual edits        *)
(***************************************************************************)
NextRender ==
    \/ SelectOrigin
    \/ SelectDestination
    \/ addStopover
    \/ removeStopover
    \/ updateStopover
    \/ handleResetJourney
    \/ RouteComputed

SpecRender == InitOpt /\ [][NextRender]_vars

(***************************************************************************)
(* SpecTimePoints: buildTimePoints on the routes of a response             *)
(***************************************************************************)
StepPolylines ==
    {<<>>, <<GeoPoint(1)>>, <<GeoPoint(1), GeoPoint(2)>>,
     <<GeoPoint(2), GeoPoint(2)>>, <<GeoPoint(1), GeoPoint(2), GeoPoint(2)>>,
     <<GeoPoint(2), GeoPoint(1), GeoPoint(3)>>}

Steps ==
    {Step(stepPath, duration, staticDuration, distanceMeters) :
        stepPath \in StepPolylines,
        duration \in {FieldMissing, FieldDots, FieldSeconds(12)},
        staticDuration \in {FieldMissing, FieldDots, FieldSeconds(24)},
        distanceMeters \in {0, UnitMeters}}

\* no legs; one leg of up to MaxSteps steps; two legs of one step
TimedRoutes ==
    {<<>>}
    \cup {<<steps>> : steps \in UNION {[1..n -> Steps] : n \in 0..MaxSteps}}
    \cup {<<<<first>>, <<second>>>> : first \in Steps, second \in Steps}

\* the route of a response is given to buildTimePoints
InitTimePoints ==
    /\ InitCall
    /\ InitApp
    /\ InitAnimVars
    /\ InitTwinVars
    /\ InitPositionVars
    /\ timedRoute \in TimedRoutes
    /\ timePoints = <<>>
    /\ InitTableVars
    /\ InitSegmentVars
    /\ InitDecodeVars
    /\ InitLocateVars
    /\ InitTravelVars

BuildTimePoints ==
    /\ timePoints' = buildTimePoints(timedRoute)
    /\ UNCHANGED <<timedRoute, tableVars, segmentVars, decodeVars, locateVars,
                   travelVars>>
    /\ UNCHANGED <<optVars, appVars, rendererVars, animVars, twinVars, positionVars>>

NextTimePoints == BuildTimePoints

SpecTimePoints == InitTimePoints /\ [][NextTimePoints]_vars

(***************************************************************************)
(* SpecMerge: buildTimePoints on routes whose steps share end points       *)
(***************************************************************************)
MergeSteps ==
    {Step(stepPath, duration, staticDuration, distanceMeters) :
        stepPath \in StepPolylines,
        duration \in {FieldMissing, FieldSeconds(12)},
        staticDuration \in {FieldMissing, FieldDots},
        distanceMeters \in {0, UnitMeters}}

\* no legs; one leg of up to MaxSteps steps; two legs of one step
MergeRoutes ==
    {<<>>}
    \cup {<<steps>> : steps \in UNION {[1..n -> MergeSteps] : n \in 0..MaxSteps}}
    \cup {<<<<first>>, <<second>>>> : first \in MergeSteps, second \in MergeSteps}

InitMerge ==
    /\ InitCall
    /\ InitApp
    /\ InitAnimVars
    /\ InitTwinVars
    /\ InitPositionVars
    /\ timedRoute \in MergeRoutes
    /\ timePoints = <<>>
    /\ InitTableVars
    /\ InitSegmentVars
    /\ InitDecodeVars
    /\ InitLocateVars
    /\ InitTravelVars

SpecMerge == InitMerge /\ [][NextTimePoints]_vars

(***************************************************************************)
(* SpecTable: the cumulative-distance table of a route's polyline          *)
(***************************************************************************)
SamplePoints == {GeoPoint(1), GeoPoint(2), GeoPoint(3)}

\* decoded polylines: every sequence of up to MaxPoints sample points, the
\* empty one (no or empty encodedPolyline) included
Polylines == UNION {[1..n -> SamplePoints] : n \in 0..MaxPoints}

InitTable ==
    /\ InitCall
    /\ InitApp
    /\ InitAnimVars
    /\ InitTwinVars
    /\ InitPositionVars
    /\ InitTimeVars
    /\ polyline \in Polylines
    /\ distances = <<>>
    /\ InitSegmentVars
    /\ InitDecodeVars
    /\ InitLocateVars
    /\ InitTravelVars

BuildDistanceTable ==
    /\ distances' = cumulativeDistanceTable(polyline)
    /\ UNCHANGED <<polyline, timeVars, segmentVars, decodeVars, locateVars,
                   travelVars>>
    /\ UNCHANGED <<optVars, appVars, rendererVars, animVars, twinVars, positionVars>>

NextTable == BuildDistanceTable

SpecTable == InitTable /\ [][NextTable]_vars

(***************************************************************************)
(* SpecSegments: the speed segments of a computed route                    *)
(***************************************************************************)
SegmentSteps ==
    {Step(<<>>, FieldMissing, staticDuration, distanceMeters) :
        staticDuration \in {FieldMissing, FieldSeconds(0), FieldSeconds(50),
                            FieldSeconds(100)},
        distanceMeters \in {0, UnitMeters}}

\* one leg of up to MaxSteps steps; two legs of one step
SegmentRoutes ==
    {<<steps>> : steps \in UNION {[1..n -> SegmentSteps] : n \in 0..MaxSteps}}
    \cup {<<<<first>>, <<second>>>> : first \in SegmentSteps,
                                       second \in SegmentSteps}

InitSegments ==
    /\ InitCall
    /\ InitApp
    /\ InitAnimVars
    /\ InitTwinVars
    /\ InitPositionVars
    /\ InitTimeVars
    /\ InitTableVars
    /\ routeLegs \in SegmentRoutes
    /\ routeDuration \in {FieldNoMatch, FieldSeconds(100)}
    /\ durationSeconds = 0
    /\ builtSegments = <<>>
    /\ InitDecodeVars
    /\ InitLocateVars
    /\ InitTravelVars

\* computeRoute from the parsing of route.duration to the speed segments,
\* no speed-limit samples being available
BuildSpeedSegments ==
    /\ durationSeconds' = parseWholeSeconds(routeDuration, 0)
    /\ builtSegments' = buildFallbackSegments(routeLegs)
    /\ UNCHANGED <<routeLegs, routeDuration, timeVars, tableVars, decodeVars,
                   locateVars, travelVars>>
    /\ UNCHANGED <<optVars, appVars, rendererVars, animVars, twinVars, positionVars>>

NextSegments == BuildSpeedSegments

SpecSegments == InitSegments /\ [][NextSegments]_vars

(***************************************************************************)
(* SpecDecode: decodePolyline on encoded strings                           *)
(***************************************************************************)
\* "_p~iF~ps|U_ulLnnqC_mqNvxq`@"
ReferenceString ==
    <<32, 49, 63, 42, 7, 63, 49, 52, 61, 22, 32, 54, 45, 13, 47, 47, 50, 4,
      32, 46, 50, 15, 55, 57, 50, 33, 1>>

\* "?" "@" "A" "B" end a group with the deltas 0, -1, 1, -2; "`" and "~"
\* continue a group
Chars == {0, 1, 2, 3, 33, 63}

EncodedStrings ==
    UNION {[1..n -> Chars] : n \in 0..MaxChars} \cup {ReferenceString}

InitDecode ==
    /\ InitCall
    /\ InitApp
    /\ InitAnimVars
    /\ InitTwinVars
    /\ InitPositionVars
    /\ InitTimeVars
    /\ InitTableVars
    /\ InitSegmentVars
    /\ encoded \in EncodedStrings
    /\ decodeOutcome = "pending"
    /\ decoded = <<>>
    /\ InitLocateVars
    /\ InitTravelVars

\* a call of decodePolyline; the function has no throw and no error result
DecodePolyline ==
    /\ decodeOutcome = "pending"
    /\ decoded' = decodePolyline(encoded)
    /\ decodeOutcome' = "returned"
    /\ UNCHANGED <<encoded, timeVars, tableVars, segmentVars, locateVars,
                   travelVars>>
    /\ UNCHANGED <<optVars, appVars, rendererVars, animVars, twinVars, positionVars>>

NextDecode == DecodePolyline

SpecDecode == InitDecode /\ [][NextDecode]_vars

(***************************************************************************)
(* SpecLocate: getPointAtTime, called as generateStopoverCoordinates calls *)
(* it: on one series with target times that do not decrease                *)
(***************************************************************************)
SeriesSamples ==
    {[lat |-> p[1], lng |-> p[2], time |-> Num(t)] :
        p \in {<<1, 1>>, <<2, 3>>, <<3, 1>>}, t \in {0, 12, 24}}
    \cup {[lat |-> 1, lng |-> 1, time |-> NaN]}

SeriesSet == UNION {[1..n -> SeriesSamples] : n \in 0..MaxSamples}

TargetTimes == {-6, 0, 6, 12, 18, 24, 30}

InitLocate ==
    /\ InitCall
    /\ InitApp
    /\ InitAnimVars
    /\ InitTwinVars
    /\ InitPositionVars
    /\ InitTimeVars
    /\ InitTableVars
    /\ InitSegmentVars
    /\ InitDecodeVars
    /\ series \in SeriesSet
    /\ targetTime = 0
    /\ located = [kind |-> "pending"]
    /\ bracket = 0
    /\ InitTravelVars

GetPointAtTime(target) ==
    /\ located.kind # "pending" => target >= targetTime
    /\ targetTime' = target
    /\ located' = getPointAtTime(series, target).point
    /\ bracket' = getPointAtTime(series, target).index
    /\ UNCHANGED <<series, timeVars, tableVars, segmentVars, decodeVars,
                   travelVars>>
    /\ UNCHANGED <<optVars, appVars, rendererVars, animVars, twinVars, positionVars>>

NextLocate == \E target \in TargetTimes : GetPointAtTime(target)

SpecLocate == InitLocate /\ [][NextLocate]_vars

(***************************************************************************)
(* SpecTravel: the distance getPositionAtProgress derives from a progress  *)
(***************************************************************************)
\* two segments of 1000 m: 100 s at 10 m/s, then 50 s at 20 m/s
ExampleSegments ==
    <<SpeedSegment(0, 1000, 100, Speed(10, 1)),
      SpeedSegment(1000, 2000, 50, Speed(20, 1))>>

\* the series computeRoute builds, and the example
SegmentSeries ==
    ({buildFallbackSegments(legs) : legs \in SegmentRoutes} \ {<<>>})
    \cup {ExampleSegments}

\* progress values of a journey, 100/150 among them
ProgressValues ==
    {Quotient(0, 1), Quotient(1, 3), Quotient(1, 2), Quotient(100, 150),
     Quotient(9, 10), Quotient(1, 1)}

InitTravel ==
    /\ InitCall
    /\ InitApp
    /\ InitAnimVars
    /\ InitTwinVars
    /\ InitPositionVars
    /\ InitTimeVars
    /\ InitTableVars
    /\ InitSegmentVars
    /\ InitDecodeVars
    /\ InitLocateVars
    /\ givenSegments \in SegmentSeries
    /\ prog \in ProgressValues
    /\ targetDistance = NoDistance

\* the first part of getPositionAtProgress, speed segments being available
ProgressToDistance ==
    /\ targetDistance = NoDistance
    /\ targetDistance' =
           targetDistanceAt(givenSegments,
                            givenSegments[Len(givenSegments)].endDistance,
                            prog)
    /\ UNCHANGED <<givenSegments, prog>>
    /\ UNCHANGED <<timeVars, tableVars, segmentVars, decodeVars, locateVars>>
    /\ UNCHANGED <<optVars, appVars, rendererVars, animVars, twinVars, positionVars>>

NextTravel == ProgressToDistance

SpecTravel == InitTravel /\ [][NextTravel]_vars

(***************************************************************************)
(* SpecPosition: getPositionAtProgress on the tables computeRoute leaves   *)
(* for a decoded route, and getPointAtDistance for the same distance       *)
(***************************************************************************)
\* the speed segments of a route: none, or those built from its steps
PositionSeries == {buildFallbackSegments(legs) : legs \in SegmentRoutes}

InitPosition ==
    /\ InitCall
    /\ InitApp
    /\ InitAnimVars
    /\ InitTwinVars
    /\ InitTimeVars
    /\ InitSegmentVars
    /\ InitDecodeVars
    /\ InitLocateVars
    /\ polyline \in Polylines \ {<<>>}
    /\ distances = cumulativeDistanceTable(polyline)
    /\ givenSegments \in PositionSeries
    /\ prog \in ProgressValues
    /\ targetDistance = NoDistance
    /\ animatorPosition = [kind |-> "pending"]
    /\ distancePoint = [kind |-> "pending"]

GetPositionAtProgress ==
    /\ targetDistance = NoDistance
    /\ LET distance == targetDistanceAt(givenSegments,
                                        distances[Len(distances)], prog)
       IN  /\ targetDistance' = distance
           /\ animatorPosition' =
                  getPositionAtProgress(polyline, distances, givenSegments,
                                        prog)
           /\ distancePoint' = getPointAtDistance(polyline, distances, distance)
    /\ UNCHANGED <<givenSegments, prog, polyline, distances>>
    /\ UNCHANGED <<timeVars, segmentVars, decodeVars, locateVars>>
    /\ UNCHANGED <<optVars, appVars, rendererVars, animVars, twinVars>>

NextPosition == GetPositionAtProgress

SpecPosition == InitPosition /\ [][NextPosition]_vars

(***************************************************************************)
(* SpecSymmetry: getPointAtDistance on a polyline with a distance table,   *)
(* and getPointAtTime on the series that pairs each vertex with its entry  *)
(***************************************************************************)
\* the tables of n entries that start at 0 and do not decrease
RECURSIVE DistanceTables(_)
DistanceTables(n) ==
    IF n = 1 THEN {<<0>>}
    ELSE {Append(table, table[Len(table)] + step) :
              table \in DistanceTables(n - 1), step \in {0, UnitMeters}}

\* targets before, on, between and beyond the entries
TargetDistances == {k * (UnitMeters \div 2) : k \in (-1)..(2 * MaxPoints)}

\* each vertex with its table entry as time
pairedSeries(path, table) ==
    [i \in 1..Len(path) |-> TimePoint(path[i], Num(table[i]))]

InitSymmetry ==
    /\ InitCall
    /\ InitApp
    /\ InitAnimVars
    /\ InitTwinVars
    /\ InitTimeVars
    /\ InitSegmentVars
    /\ InitDecodeVars
    /\ InitTravelVars
    /\ polyline \in Polylines \ {<<>>}
    /\ distances \in DistanceTables(Len(polyline))
    /\ series = pairedSeries(polyline, distances)
    /\ targetTime \in TargetDistances
    /\ located = [kind |-> "pending"]
    /\ bracket = 0
    /\ animatorPosition = [kind |-> "pending"]
    /\ distancePoint = [kind |-> "pending"]

LocateBothWays ==
    /\ located.kind = "pending"
    /\ located' = getPointAtTime(series, targetTime).point
    /\ bracket' = getPointAtTime(series, targetTime).index
    /\ distancePoint' = getPointAtDistance(polyline, distances,
                                           Quotient(targetTime, 1))
    /\ UNCHANGED <<series, targetTime, polyline, distances, animatorPosition>>
    /\ UNCHANGED <<timeVars, segmentVars, decodeVars, travelVars>>
    /\ UNCHANGED <<optVars, appVars, rendererVars, animVars, twinVars>>

NextSymmetry == LocateBothWays

SpecSymmetry == InitSymmetry /\ [][NextSymmetry]_vars

(***************************************************************************)
(* SpecPartition: the cumulative-distance table and the speed segments     *)
(* computeRoute derives from one response                                  *)
(***************************************************************************)
InitPartition ==
    /\ InitCall
    /\ InitApp
    /\ InitAnimVars
    /\ InitTwinVars
    /\ InitPositionVars
    /\ InitTimeVars
    /\ InitDecodeVars
    /\ InitLocateVars
    /\ InitTravelVars
    /\ polyline \in Polylines
    /\ distances = <<>>
    /\ routeLegs \in SegmentRoutes
    /\ routeDuration = FieldSeconds(100)
    /\ durationSeconds = 0
    /\ builtSegments = <<>>

\* computeRoute from the decoded path to setSpeedSegments; speed limits are
\* disabled (SPEED_LIMITS_ENABLED = false), so speedLimitSamples is empty
ComputeTables ==
    /\ distances = <<>>
    /\ distances' = cumulativeDistanceTable(polyline)
    /\ durationSeconds' = parseWholeSeconds(routeDuration, 0)
    /\ builtSegments' = buildFallbackSegments(routeLegs)
    /\ UNCHANGED <<polyline, routeLegs, routeDuration>>
    /\ UNCHANGED <<timeVars, decodeVars, locateVars, travelVars>>
    /\ UNCHANGED <<optVars, appVars, rendererVars, animVars, twinVars, positionVars>>

NextPartition == ComputeTables

SpecPartition == InitPartition /\ [][NextPartition]_vars

(***************************************************************************)
(* SpecCandidates: generateStopoverCoordinates on the time series and the  *)
(* distance table calculateIdealStopovers derives from a route, for a      *)
(* reported total duration and a segment count                             *)
(***************************************************************************)
\* the target time segmentDurationSeconds * i of candidate i
candidateTargetTime(totalDurationSeconds, segmentCount, i) ==
    (totalDurationSeconds * i) \div segmentCount

\* timePoints.length > 1 && timePoints[timePoints.length - 1].time > 0
hasTimeData(points) ==
    /\ Len(points) > 1
    /\ ~points[Len(points)].time.nan
    /\ points[Len(points)].time.val > 0

\* distances[distances.length - 1] || 0
totalDistanceMeters(table) == table[Len(table)]

\* the point of one pass of the loop of generateStopoverCoordinates, null
\* when neither the time series nor the distance table gives one
candidatePoint(segmentCount, totalDurationSeconds, points, path, table, i) ==
    LET timed == IF hasTimeData(points)
                 THEN getPointAtTime(points,
                          candidateTargetTime(totalDurationSeconds,
                                              segmentCount, i)).point
                 ELSE [kind |-> "null"]
    IN  IF timed.kind = "null" /\ totalDistanceMeters(table) > 0
        THEN getPointAtDistance(path, table,
                 Quotient(totalDistanceMeters(table) * i, segmentCount))
        ELSE timed

\* generateStopoverCoordinates on the series and the table: the points
\* pushed for i = 1 .. segmentCount - 1
stopoverCandidates(segmentCount, totalDurationSeconds, points, path, table) ==
    IF segmentCount - 1 <= 0
    THEN <<>>
    ELSE SelectSeq([i \in 1..(segmentCount - 1) |->
                       candidatePoint(segmentCount, totalDurationSeconds,
                                      points, path, table, i)],
                   LAMBDA point : point.kind # "null")

\* steps that carry a duration or none, and no distance to estimate one
CandidateSteps ==
    {Step(stepPath, duration, FieldMissing, 0) :
        stepPath \in {<<GeoPoint(1), GeoPoint(2)>>,
                      <<GeoPoint(2), GeoPoint(3)>>,
                      <<GeoPoint(3), GeoPoint(4)>>},
        duration \in {FieldMissing, FieldSeconds(12), FieldSeconds(24)}}

\* one leg of one to MaxSteps steps
CandidateRoutes ==
    {<<steps>> : steps \in UNION {[1..n -> CandidateSteps] : n \in 1..MaxSteps}}

\* reported total durations every segment count divides
ReportedDurations == {12, 24, 48}

\* the segment counts the loop of calculateIdealStopovers evaluates
CandidateSegmentCounts == 2..3

InitCandidates ==
    /\ pc = "awaitRoute"
    /\ maxStopovers = ArgAbsent
    /\ totalDuration \in {Num(seconds) : seconds \in ReportedDurations}
    /\ idealSegments = 0
    /\ maxSegments = 0
    /\ evaluatedSegments \in CandidateSegmentCounts
    /\ attempt = 0
    /\ routeShape = "degenerate"
    /\ routeReply = "none"
    /\ stopoverCoords = <<>>
    /\ legReply = "none"
    /\ legDurations = <<>>
    /\ results = <<>>
    /\ settled = "pending"
    /\ returned = <<>>
    /\ routeQueries = 1
    /\ legQueries = 0
    /\ geocodeQueries = 0
    /\ intermediates = <<>>
    /\ lastEvaluated = <<>>
    /\ InitApp
    /\ InitAnimVars
    /\ InitTwinVars
    /\ InitPositionVars
    /\ timedRoute \in CandidateRoutes
    /\ timePoints = <<>>
    /\ polyline \in {<<>>, <<GeoPoint(1), GeoPoint(2), GeoPoint(4)>>}
    /\ distances = <<>>
    /\ InitSegmentVars
    /\ InitDecodeVars
    /\ InitLocateVars
    /\ InitTravelVars

\* calculateIdealStopovers from the decoded polyline to the candidates of
\* the segment count under evaluation
GenerateCandidates ==
    /\ distances = <<>>
    /\ distances' = cumulativeDistanceTable(polyline)
    /\ timePoints' = buildTimePoints(timedRoute)
    /\ stopoverCoords' =
           stopoverCandidates(evaluatedSegments, totalDuration.val,
                              buildTimePoints(timedRoute), polyline,
                              cumulativeDistanceTable(polyline))
    /\ UNCHANGED <<pc, maxStopovers, totalDuration, idealSegments,
                   maxSegments, evaluatedSegments, attempt, routeShape,
                   routeReply, legReply, legDurations, results, settled,
                   returned, routeQueries, legQueries, geocodeQueries,
                   intermediates, lastEvaluated>>
    /\ UNCHANGED <<timedRoute, polyline>>
    /\ UNCHANGED <<segmentVars, decodeVars, locateVars, travelVars>>
    /\ UNCHANGED <<appVars, rendererVars, animVars, twinVars, positionVars>>

NextCandidates == GenerateCandidates

SpecCandidates == InitCandidates /\ [][NextCandidates]_vars

(***************************************************************************)
(* SpecStopoverPositions: the effect of the renderer that places the       *)
(* stopover markers and reports the stopover positions, on the state a     *)
(* route computation left                                                  *)
(***************************************************************************)
\* stopover.lat === 0 && stopover.lng === 0
isUnset(stopover) == stopover.lat = 0 /\ stopover.lng = 0

\* the index of the first point of the path nearest to the stopover,
\* counted from 1
closestIndex(path, stopover) ==
    CHOOSE idx \in 1..Len(path) :
        /\ \A other \in 1..Len(path) :
               calculateDistance(stopover, path[idx])
                   <= calculateDistance(stopover, path[other])
        /\ \A before \in 1..(idx - 1) :
               calculateDistance(stopover, path[before])
                   > calculateDistance(stopover, path[idx])

\* distancePositions: 0 for an unset stopover, else the share of the total
\* distance at the nearest point of the path
distancePositions(list, path, table) ==
    [index \in 1..Len(list) |->
        IF isUnset(list[index]) \/ table[Len(table)] <= 0
        THEN Quotient(0, 1)
        ELSE Quotient(table[closestIndex(path, list[index])],
                      table[Len(table)])]

\* Math.min(Math.max(cumulativeDuration / totalRouteDuration, 0), 1)
clampedRatio(cumulativeDuration, totalSeconds) ==
    Quotient(Min(Max(cumulativeDuration, 0), totalSeconds), totalSeconds)

\* the forEach that fills timePositions, from the stopover at index on
RECURSIVE timePositionsFrom(_, _, _, _, _)
timePositionsFrom(list, legs, totalSeconds, index, cumulativeDuration) ==
    IF index > Len(list)
    THEN <<>>
    ELSE IF isUnset(list[index])
    THEN <<Quotient(0, 1)>>
             \o timePositionsFrom(list, legs, totalSeconds, index + 1,
                                  cumulativeDuration)
    ELSE LET legDuration == IF index <= Len(legs) THEN legs[index] ELSE 0
             cumulative == cumulativeDuration + legDuration
         IN  <<clampedRatio(cumulative, totalSeconds)>>
                 \o timePositionsFrom(list, legs, totalSeconds, index + 1,
                                      cumulative)

\* timePositions, empty unless totalRouteDuration > 0 and there are legs
timePositions(list, legs, totalSeconds) ==
    IF totalSeconds > 0 /\ Len(legs) > 0
    THEN timePositionsFrom(list, legs, totalSeconds, 1, 0)
    ELSE <<>>

\* a position is finite and within [0, 1]
withinUnit(position) ==
    position.den > 0 /\ position.num >= 0 /\ position.num <= position.den

hasCompleteTimePositions(list, legs, totalSeconds) ==
    /\ totalSeconds > 0
    /\ Len(legs) >= Len(list)
    /\ Len(timePositions(list, legs, totalSeconds)) = Len(list)
    /\ \A index \in 1..Len(list) :
           withinUnit(timePositions(list, legs, totalSeconds)[index])

\* what the effect passes to onStopoverPositionsCalculated, the map being
\* there
reportedPositions(list, path, table, legs, totalSeconds) ==
    IF Len(path) = 0 \/ Len(table) = 0 \/ Len(list) = 0
    THEN <<>>
    ELSE IF hasCompleteTimePositions(list, legs, totalSeconds)
    THEN timePositions(list, legs, totalSeconds)
    ELSE distancePositions(list, path, table)

\* the stopovers of a list: unset, or picked on the route
MaxSlots == MaxLegs
StopoverSlots ==
    {ZeroLocation, Place(Coord(2, 1), FormattedAddress),
     Place(Coord(3, 1), FormattedAddress)}
StopoverLists == UNION {[1..n -> StopoverSlots] : n \in 0..MaxSlots}

\* the leg durations a response left, of the route of this list or of an
\* earlier one
LegDurationLists == UNION {[1..n -> {10, 20}] : n \in 0..(MaxSlots + 1)}

InitStopoverPositions ==
    /\ InitCall
    /\ InitCalc
    /\ origin = PickedOrigin
    /\ destination = PickedDestination
    /\ stopovers \in StopoverLists
    /\ stopoverDurations = [index \in 1..Len(stopovers) |-> DEFAULT_REST_MINUTES]
    /\ routeData = NoRoute
    /\ isAutoSuggesting = FALSE
    /\ routePath \in {<<>>, <<GeoPoint(1), GeoPoint(2), GeoPoint(3), GeoPoint(4)>>}
    /\ cumulativeDistances = cumulativeDistanceTable(routePath)
    /\ speedSegments = <<>>
    /\ routeLegDurations \in LegDurationLists
    /\ totalRouteDuration \in {0, 30, 40}
    /\ inflight = {}
    /\ requests = 0
    /\ lastRouteQuery = <<>>
    /\ answered = "none"
    /\ cleanSinceReset = FALSE
    /\ edits = 0

\* the effect on [map, stopovers, routePath, cumulativeDistances,
\* legDurations, totalRouteDuration]: it runs once for the state it is given
ReportStopoverPositions ==
    /\ stopoverPositions.kind = "list"
    /\ stopoverPositions' =
           [kind |-> "reported",
            values |-> reportedPositions(stopovers, routePath,
                                         cumulativeDistances,
                                         routeLegDurations,
                                         totalRouteDuration)]
    /\ UNCHANGED <<elapsedTime, timerElapsed, completedStopovers, isResting,
                   restTimeRemaining, showRestCompleteDialog,
                   completionDialogOpen, restLog>>
    /\ UNCHANGED <<journeyVars, markerRouteVars, refVars, tickVars>>
    /\ UNCHANGED <<optVars, appVars, rendererVars, pureVars, twinVars>>

NextStopoverPositions == ReportStopoverPositions

SpecStopoverPositions ==
    InitStopoverPositions /\ [][NextStopoverPositions]_vars

(***************************************************************************)
(* SpecAnim: the journey, the route computations that answer during it,    *)
(* and the animation of the progress marker                                *)
(***************************************************************************)
Refs ==
    [visible |-> markerVisible, start |-> startProgress,
     target |-> targetProgress, frame |-> animationFrame,
     pending |-> pendingFrames, cleanup |-> hasCleanup]

SetRefs(refs) ==
    /\ markerVisible' = refs.visible
    /\ startProgress' = refs.start
    /\ targetProgress' = refs.target
    /\ animationFrame' = refs.frame
    /\ pendingFrames' = refs.pending
    /\ hasCleanup' = refs.cleanup

\* requestAnimationFrame has an id left to return
FrameAvailable(refs) == FrameIds \ (refs.pending \cup {refs.frame}) # {}

\* decoded routes of 0 to 3 points, without speed segments or with one
\* segment over the whole route
MarkerRoutes ==
    {[path |-> path, segments |-> segments] :
        path \in {<<>>, <<GeoPoint(1)>>, <<GeoPoint(1), GeoPoint(2)>>,
                  <<GeoPoint(1), GeoPoint(3), GeoPoint(2)>>},
        segments \in {<<>>}}
    \cup {[path |-> path,
           segments |->
               <<SpeedSegment(0, calculateDistance(path[1], path[Len(path)]),
                              2,
                              Speed(calculateDistance(path[1], path[Len(path)]),
                                    2))>>] :
           path \in {<<GeoPoint(1)>>, <<GeoPoint(1), GeoPoint(2)>>}}

\* origin and destination are selected, or the stopovers edited, in the
\* planner: the route effect calls computeRoute
RequestRoute ==
    /\ mounted /\ ~isJourneyStarted /\ progress = 0
    /\ awaited < MaxRequests
    /\ hasPlaces' = TRUE
    /\ awaited' = awaited + 1
    /\ UNCHANGED <<mounted, hasRouteData, isJourneyStarted, progress>>
    /\ UNCHANGED <<markerRouteVars, refVars, tickVars>>
    /\ UNCHANGED <<optVars, appVars, rendererVars, pureVars, twinVars, restVars>>

\* a response with a route: setRoutePath, setCumulativeDistances,
\* setSpeedSegments and onRouteCalculated, then the progress effect
RouteLoaded(route) ==
    /\ mounted /\ awaited > 0
    /\ awaited' = awaited - 1
    /\ markerPath' = route.path
    /\ markerDistances' = cumulativeDistanceTable(route.path)
    /\ markerSegments' = route.segments
    /\ hasRouteData' = TRUE
    /\ FrameAvailable(runCleanup(Refs))
    /\ SetRefs(progressEffect(Refs, progress, route.path,
                              cumulativeDistanceTable(route.path)))
    /\ UNCHANGED <<mounted, hasPlaces, isJourneyStarted, progress, tickVars>>
    /\ UNCHANGED <<optVars, appVars, rendererVars, pureVars, twinVars, restVars>>

\* a response without a route, or a failed request
RouteNotLoaded ==
    /\ mounted /\ awaited > 0
    /\ awaited' = awaited - 1
    /\ UNCHANGED <<mounted, hasPlaces, hasRouteData, isJourneyStarted,
                   progress>>
    /\ UNCHANGED <<markerRouteVars, refVars, tickVars>>
    /\ UNCHANGED <<optVars, appVars, rendererVars, pureVars, twinVars, restVars>>

\* the refs of auto-centering and the camera of the map, as one record
Center ==
    [active |-> autoCenterActive, prev |-> prevAutoCenter,
     tilt |-> mapTilt, heading |-> mapHeading]

SetCenter(center) ==
    /\ autoCenterActive' = center.active
    /\ prevAutoCenter' = center.prev
    /\ mapTilt' = center.tilt
    /\ mapHeading' = center.heading

\* autoCenterOnMarker after the queued updates prev => !prev
toggled(value, times) == IF times % 2 = 0 THEN value ELSE ~value

\* the effect on [autoCenterOnMarker]
activeRefEffect(center, autoCenter) == [center EXCEPT !.active = autoCenter]

\* the effect on [currentMarkerPosition, map, autoCenterOnMarker];
\* positioned: currentMarkerPosition is not null
centeringEffect(center, autoCenter, positioned) ==
    IF ~positioned
    THEN center
    ELSE IF autoCenter /\ ~center.prev
    THEN [active |-> TRUE, prev |-> TRUE, tilt |-> 60, heading |-> "marker"]
    ELSE IF ~autoCenter /\ center.prev
    THEN [active |-> FALSE, prev |-> FALSE, tilt |-> 0, heading |-> "north"]
    ELSE IF autoCenter
    THEN [center EXCEPT !.tilt = 60, !.heading = "marker"]
    ELSE center

\* the effects of auto-centering after a render: autoCenter is the value
\* rendered, moved tells that currentMarkerPosition changed
centerEffects(center, autoCenter, moved, positioned) ==
    LET changed == autoCenter # autoCenterOnMarker
        first == IF changed THEN activeRefEffect(center, autoCenter)
                 ELSE center
    IN  IF changed \/ moved
        THEN centeringEffect(first, autoCenter, positioned)
        ELSE first

\* a render: the queued updates of autoCenterOnMarker, then the effects
renderCenter(center, moved, positioned) ==
    /\ autoCenterOnMarker' = toggled(autoCenterOnMarker, queuedToggles)
    /\ queuedToggles' = 0
    /\ burst' = 0
    /\ notices' = 0
    /\ SetCenter(centerEffects(center,
                               toggled(autoCenterOnMarker, queuedToggles),
                               moved, positioned))

\* onRestStart: setRestTimeRemaining(duration * 60)
SECONDS_PER_MINUTE == 60

\* progress >= stopoverPercentage && progress < stopoverPercentage + 0.005
\* with progress = elapsedTime / totalTime
withinTolerance(elapsed, position) ==
    /\ elapsed * position.den >= position.num * JourneySeconds
    /\ 200 * elapsed * position.den
           < 200 * position.num * JourneySeconds + position.den * JourneySeconds

\* the stopovers the effect of the FocusTimer calls onRestStart for when
\* the timer runs at this elapsed time: a position that is not 0 or
\* undefined, not completed yet, reached within the tolerance
reachedStopovers(elapsed) ==
    {index \in 1..Len(stopovers) :
        /\ index <= Len(stopoverPositions.values)
        /\ stopoverPositions.values[index].num # 0
        /\ index \notin completedStopovers
        /\ withinTolerance(elapsed, stopoverPositions.values[index])}

\* stopoverDurations[index] || 5
restDuration(index) ==
    IF index <= Len(stopoverDurations) /\ stopoverDurations[index] # 0
    THEN stopoverDurations[index]
    ELSE 5

\* the last index of a non-empty set, the one forEach visits last
lastOf(indices) == CHOOSE index \in indices : \A other \in indices : other <= index

\* the indices of a set in the order forEach visits them
RECURSIVE inOrder(_)
inOrder(indices) ==
    IF indices = {}
    THEN <<>>
    ELSE LET first == CHOOSE index \in indices :
                          \A other \in indices : index <= other
         IN  <<first>> \o inOrder(indices \ {first})

\* the effect of the FocusTimer that checks for a reached stopover, run
\* with isRunning true at this elapsed time: onRestStart for every stopover
\* just reached, the journey running on when there is none
startRests(elapsed) ==
    LET reached == reachedStopovers(elapsed)
    IN  IF reached = {}
        THEN /\ isJourneyStarted' = TRUE
             /\ UNCHANGED <<completedStopovers, isResting, restTimeRemaining,
                            restLog>>
        ELSE /\ completedStopovers' = completedStopovers \cup reached
             /\ restLog' = restLog \o inOrder(reached)
             /\ isResting' = TRUE
             /\ restTimeRemaining' =
                    restDuration(lastOf(reached)) * SECONDS_PER_MINUTE
             /\ isJourneyStarted' = FALSE

\* Start Journey in the planner; progress is 0 already.  The FocusTimer
\* mounts: elapsed time 0, no stopover completed, no dialog; no position
\* other than 0 is reached at elapsed time 0.
handleStartJourney ==
    /\ mounted /\ ~isJourneyStarted /\ progress = 0
    /\ hasPlaces /\ hasRouteData
    /\ isJourneyStarted' = TRUE
    /\ timerElapsed' = 0
    /\ completedStopovers' = {}
    /\ showRestCompleteDialog' = FALSE
    /\ UNCHANGED <<stopoverPositions, elapsedTime, isResting,
                   restTimeRemaining, completionDialogOpen, restLog>>
    /\ UNCHANGED <<mounted, hasPlaces, hasRouteData, progress, awaited>>
    /\ UNCHANGED <<markerRouteVars, refVars, tickVars>>
    /\ UNCHANGED <<optVars, appVars, rendererVars, pureVars, twinVars>>

handlePauseJourney ==
    /\ mounted /\ isJourneyStarted /\ progress > 0 /\ hasRouteData
    /\ isJourneyStarted' = FALSE
    /\ UNCHANGED <<mounted, hasPlaces, hasRouteData, progress, awaited>>
    /\ UNCHANGED <<markerRouteVars, refVars, tickVars>>
    /\ UNCHANGED <<optVars, appVars, rendererVars, pureVars, twinVars, restVars>>

\* Resume without the check of isResting
handleResumeJourneyWhileResting ==
    /\ mounted /\ ~isJourneyStarted /\ progress > 0 /\ hasRouteData
    /\ startRests(timerElapsed)
    /\ UNCHANGED <<mounted, hasPlaces, hasRouteData, progress, awaited>>
    /\ UNCHANGED <<stopoverPositions, elapsedTime, timerElapsed,
                   showRestCompleteDialog, completionDialogOpen>>
    /\ UNCHANGED <<markerRouteVars, refVars, tickVars>>
    /\ UNCHANGED <<optVars, appVars, rendererVars, pureVars, twinVars>>

\* Resume: if (routeData && progress > 0 && !isResting), then the effect
\* of the FocusTimer that checks for a reached stopover
handleResumeJourney ==
    /\ mounted /\ ~isJourneyStarted /\ progress > 0 /\ hasRouteData
    /\ ~isResting
    /\ startRests(timerElapsed)
    /\ UNCHANGED <<mounted, hasPlaces, hasRouteData, progress, awaited>>
    /\ UNCHANGED <<stopoverPositions, elapsedTime, timerElapsed,
                   showRestCompleteDialog, completionDialogOpen>>
    /\ UNCHANGED <<markerRouteVars, refVars, tickVars>>
    /\ UNCHANGED <<optVars, appVars, rendererVars, pureVars, twinVars>>

\* a tick of the FocusTimer before the end: onTimeUpdate(newTime, progress),
\* then the progress effect of the renderer and the effect of the FocusTimer
\* that starts the rests of the stopovers just reached
handleTimeUpdate ==
    /\ mounted /\ isJourneyStarted /\ hasRouteData
    /\ timerElapsed + 1 < JourneySeconds
    /\ timerElapsed' = timerElapsed + 1
    /\ elapsedTime' = timerElapsed + 1
    /\ progress' = timerElapsed + 1
    /\ FrameAvailable(runCleanup(Refs))
    /\ SetRefs(progressEffect(Refs, timerElapsed + 1, markerPath,
                              markerDistances))
    /\ startRests(timerElapsed + 1)
    /\ UNCHANGED <<mounted, hasPlaces, hasRouteData, awaited>>
    /\ UNCHANGED <<stopoverPositions, showRestCompleteDialog,
                   completionDialogOpen>>
    /\ UNCHANGED <<markerRouteVars, tickVars>>
    /\ UNCHANGED <<optVars, appVars, rendererVars, pureVars, twinVars>>

\* the tick that reaches the total time: onComplete(), the timer keeping
\* totalTime as its elapsed time; onTimeUpdate is not called
handleComplete ==
    /\ mounted /\ isJourneyStarted /\ hasRouteData
    /\ timerElapsed + 1 >= JourneySeconds
    /\ timerElapsed' = JourneySeconds
    /\ isJourneyStarted' = FALSE
    /\ completionDialogOpen' = TRUE
    /\ UNCHANGED <<stopoverPositions, elapsedTime, completedStopovers,
                   isResting, restTimeRemaining, showRestCompleteDialog,
                   restLog>>
    /\ UNCHANGED <<mounted, hasPlaces, hasRouteData, progress, awaited>>
    /\ UNCHANGED <<markerRouteVars, refVars, tickVars>>
    /\ UNCHANGED <<optVars, appVars, rendererVars, pureVars, twinVars>>

\* Reset in the planner, Quit while a journey runs, or the confirmation of
\* the completion dialog.  First commit: the route effect hides the marker
\* and the progress effect runs if progress changed; second commit: the
\* emptied route state runs the progress effect again.
ResetJourney ==
    /\ mounted
    /\ progress' = 0
    /\ isJourneyStarted' = FALSE
    /\ elapsedTime' = 0
    /\ stopoverPositions' = [kind |-> "list", values |-> <<>>]
    /\ isResting' = FALSE
    /\ restTimeRemaining' = 0
    /\ timerElapsed' = 0
    /\ completedStopovers' = {}
    /\ showRestCompleteDialog' = FALSE
    /\ UNCHANGED <<completionDialogOpen, restLog>>
    /\ hasPlaces' = FALSE
    /\ hasRouteData' = FALSE
    /\ markerPath' = <<>>
    /\ markerDistances' = <<>>
    /\ markerSegments' = <<>>
    /\ LET hidden == [Refs EXCEPT !.visible = FALSE]
           first == IF progress # 0
                    THEN progressEffect(hidden, 0, markerPath, markerDistances)
                    ELSE hidden
       IN  SetRefs(progressEffect(first, 0, <<>>, <<>>))
    /\ autoCenterOnMarker' = FALSE
    /\ queuedToggles' = 0
    /\ burst' = 0
    /\ notices' = 0
    /\ interacted' = FALSE
    /\ SetCenter(centerEffects(Center, FALSE, FALSE,
                               markerPosition.kind # "none"))
    /\ UNCHANGED <<mounted, awaited, tickOutcome, markerPosition,
                   displayedProgress, turned>>
    /\ UNCHANGED <<optVars, appVars, rendererVars, pureVars, twinVars>>

\* currentProgress of animate: the target when the animation has run its
\* second, else halfway from the start to the target
currentProgress(finished) ==
    IF finished THEN Quotient(targetProgress, JourneySeconds)
    ELSE Quotient(startProgress + targetProgress, 2 * JourneySeconds)

\* nextProgress = currentProgress + 0.001
nextProgress(current) == Quotient(1000 * current.num + current.den,
                                  1000 * current.den)

\* the browser runs a pending frame: animate.  A TypeError thrown by
\* getPositionAtProgress ends the callback before it requests a frame.
\* With auto-centering active it turns the map to the heading ahead;
\* setCurrentMarkerPosition then brings a render and the centering effect.
animate(id, finished) ==
    /\ id \in pendingFrames
    /\ FrameAvailable(Refs)
    /\ LET current == currentProgress(finished)
           next == nextProgress(current)
           position == getPositionAtProgress(markerPath, markerDistances,
                                             markerSegments, current)
           nextPosition == getPositionAtProgress(markerPath, markerDistances,
                                                 markerSegments, next)
           thrown == \/ position.kind = "TypeError"
                     \/ /\ next.num <= next.den
                        /\ nextPosition.kind = "TypeError"
           ran == pendingFrames \ {id}
           again == requestAnimationFrame(ran, animationFrame)
           turns == ~thrown /\ next.num <= next.den /\ autoCenterActive
           ahead == IF turns
                    THEN [Center EXCEPT !.heading = "marker", !.tilt = 60]
                    ELSE Center
       IN  /\ tickOutcome' = IF thrown THEN "TypeError" ELSE "positioned"
           /\ markerPosition' = IF thrown THEN markerPosition ELSE position
           /\ displayedProgress' = IF thrown THEN displayedProgress ELSE current
           /\ turned' = IF turns THEN ~turned ELSE turned
           /\ IF thrown
              THEN UNCHANGED <<autoCenterOnMarker, queuedToggles,
                               autoCenterActive, prevAutoCenter, mapTilt,
                               mapHeading, burst, notices>>
              ELSE renderCenter(ahead, TRUE, TRUE)
           /\ UNCHANGED interacted
           /\ IF ~thrown /\ ~finished
              THEN /\ animationFrame' = again
                   /\ pendingFrames' = ran \cup {again}
              ELSE /\ animationFrame' = animationFrame
                   /\ pendingFrames' = ran
    /\ UNCHANGED <<markerVisible, startProgress, targetProgress, hasCleanup>>
    /\ UNCHANGED <<journeyVars, markerRouteVars>>
    /\ UNCHANGED <<optVars, appVars, rendererVars, pureVars, twinVars, restVars>>

\* the component unmounts: the cleanup of the progress effect, then the
\* cleanup of the effect that created the marker
Unmount ==
    /\ mounted
    /\ mounted' = FALSE
    /\ LET cleaned == runCleanup(Refs)
       IN  SetRefs([cleaned EXCEPT !.pending = cancelCurrent(cleaned),
                                   !.cleanup = FALSE])
    /\ UNCHANGED <<hasPlaces, hasRouteData, isJourneyStarted, progress,
                   awaited>>
    /\ UNCHANGED <<markerRouteVars, tickVars>>
    /\ UNCHANGED <<optVars, appVars, rendererVars, pureVars, twinVars, restVars>>

InitAnim == InitCall /\ InitApp /\ InitCalc

NextAnim ==
    \/ RequestRoute
    \/ \E route \in MarkerRoutes : RouteLoaded(route)
    \/ RouteNotLoaded
    \/ handleStartJourney
    \/ handlePauseJourney
    \/ handleResumeJourney
    \/ handleTimeUpdate
    \/ handleComplete
    \/ ResetJourney
    \/ \E id \in FrameIds, finished \in BOOLEAN : animate(id, finished)
    \/ Unmount

SpecAnim == InitAnim /\ [][NextAnim]_vars

(***************************************************************************)
(* SpecTimer: a journey over a loaded route with stopovers: the FocusTimer *)
(* (ticks, rests, the rest countdown and its dialog) and the journey       *)
(* handlers of App                                                         *)
(***************************************************************************)
\* the tick of the rest countdown: onRestTick(restTimeRemaining - 1), and
\* the dialog when the countdown is over
onRestTick ==
    /\ mounted /\ hasRouteData
    /\ isResting /\ restTimeRemaining > 0
    /\ restTimeRemaining' = restTimeRemaining - 1
    /\ showRestCompleteDialog' =
           (showRestCompleteDialog \/ restTimeRemaining - 1 <= 0)
    /\ UNCHANGED <<stopoverPositions, elapsedTime, timerElapsed,
                   completedStopovers, isResting, completionDialogOpen,
                   restLog>>
    /\ UNCHANGED <<journeyVars, markerRouteVars, refVars, tickVars>>
    /\ UNCHANGED <<optVars, appVars, rendererVars, pureVars, twinVars>>

\* Continue Journey in the dialog: onRestComplete(); the stopovers in
\* reach at this elapsed time are completed already
handleContinueJourney ==
    /\ mounted /\ hasRouteData
    /\ showRestCompleteDialog
    /\ showRestCompleteDialog' = FALSE
    /\ isResting' = FALSE
    /\ restTimeRemaining' = 0
    /\ isJourneyStarted' = TRUE
    /\ UNCHANGED <<stopoverPositions, elapsedTime, timerElapsed,
                   completedStopovers, completionDialogOpen, restLog>>
    /\ UNCHANGED <<mounted, hasPlaces, hasRouteData, progress, awaited>>
    /\ UNCHANGED <<markerRouteVars, refVars, tickVars>>
    /\ UNCHANGED <<optVars, appVars, rendererVars, pureVars, twinVars>>

\* onOpenChange of the dialog: it is dismissed without Continue Journey
setShowRestCompleteDialog ==
    /\ mounted /\ hasRouteData
    /\ showRestCompleteDialog
    /\ showRestCompleteDialog' = FALSE
    /\ UNCHANGED <<stopoverPositions, elapsedTime, timerElapsed,
                   completedStopovers, isResting, restTimeRemaining,
                   completionDialogOpen, restLog>>
    /\ UNCHANGED <<journeyVars, markerRouteVars, refVars, tickVars>>
    /\ UNCHANGED <<optVars, appVars, rendererVars, pureVars, twinVars>>

\* positions the renderer can report for a stopover
TimerPositions ==
    {Quotient(0, 1), Quotient(1, 3), Quotient(1, 2), Quotient(2, 3),
     Quotient(1, 1)}

\* the lists it reports for up to MaxSlots stopovers
TimerPositionLists == UNION {[1..n -> TimerPositions] : n \in 0..MaxSlots}

\* a route is loaded and its stopover positions are reported; the rests
\* take a minute
InitTimer ==
    /\ InitCall
    /\ InitTimeVars
    /\ InitTableVars
    /\ InitSegmentVars
    /\ InitDecodeVars
    /\ InitLocateVars
    /\ InitTravelVars
    /\ InitPositionVars
    /\ InitTwinVars
    /\ origin = PickedOrigin
    /\ destination = PickedDestination
    /\ stopoverPositions \in
           {[kind |-> "reported", values |-> values] :
               values \in TimerPositionLists}
    /\ stopovers = [index \in 1..Len(stopoverPositions.values) |->
                       PickedStopover]
    /\ stopoverDurations = [index \in 1..Len(stopovers) |-> 1]
    /\ routeData = NoRoute
    /\ isAutoSuggesting = FALSE
    /\ routePath = NoRoute
    /\ cumulativeDistances = NoRoute
    /\ speedSegments = NoRoute
    /\ routeLegDurations = NoRoute
    /\ totalRouteDuration = NoRoute
    /\ inflight = {}
    /\ requests = 0
    /\ lastRouteQuery = <<>>
    /\ answered = "none"
    /\ cleanSinceReset = FALSE
    /\ edits = 0
    /\ mounted = TRUE
    /\ hasPlaces = TRUE
    /\ hasRouteData = TRUE
    /\ isJourneyStarted = FALSE
    /\ progress = 0
    /\ awaited = 0
    /\ markerPath = <<GeoPoint(1), GeoPoint(2)>>
    /\ markerDistances = cumulativeDistanceTable(markerPath)
    /\ markerSegments = <<>>
    /\ markerVisible = FALSE
    /\ startProgress = 0
    /\ targetProgress = 0
    /\ animationFrame = 0
    /\ pendingFrames = {}
    /\ hasCleanup = FALSE
    /\ tickOutcome = "none"
    /\ markerPosition = [kind |-> "none"]
    /\ displayedProgress = Quotient(0, 1)
    /\ InitCenterVars
    /\ elapsedTime = 0
    /\ timerElapsed = 0
    /\ completedStopovers = {}
    /\ isResting = FALSE
    /\ restTimeRemaining = 0
    /\ showRestCompleteDialog = FALSE
    /\ completionDialogOpen = FALSE
    /\ restLog = <<>>

NextTimer ==
    \/ handleStartJourney
    \/ handlePauseJourney
    \/ handleResumeJourney
    \/ handleTimeUpdate
    \/ handleComplete
    \/ onRestTick
    \/ handleContinueJourney
    \/ setShowRestCompleteDialog
    \/ ResetJourney

SpecTimer == InitTimer /\ [][NextTimer]_vars

(***************************************************************************)
(* SpecCenter: a journey over a loaded route with the auto-centering of    *)
(* the map: the toggle, the map interactions that end it, the renders and  *)
(* the animation frames                                                    *)
(***************************************************************************)
\* the toggle of auto-centering is clicked: handleToggleAutoCenter and the
\* render of the click; the render an interaction scheduled came before
handleToggleAutoCenter ==
    /\ mounted /\ hasRouteData
    /\ queuedToggles = 0
    /\ autoCenterOnMarker' = ~autoCenterOnMarker
    /\ queuedToggles' = 0
    /\ burst' = 0
    /\ notices' = 0
    /\ interacted' = FALSE
    /\ SetCenter(centerEffects(Center, ~autoCenterOnMarker, FALSE,
                               markerPosition.kind # "none"))
    /\ UNCHANGED <<tickOutcome, markerPosition, displayedProgress, turned>>
    /\ UNCHANGED <<journeyVars, markerRouteVars, refVars>>
    /\ UNCHANGED <<optVars, appVars, rendererVars, pureVars, twinVars, restVars>>

\* handleInteraction without the check of autoCenterActiveRef
handleInteractionUnchecked ==
    /\ mounted
    /\ burst < MaxBurst
    /\ burst' = burst + 1
    /\ autoCenterActive' = FALSE
    /\ mapTilt' = 0
    /\ mapHeading' = "north"
    /\ notices' = notices + 1
    /\ queuedToggles' = IF autoCenterOnMarker THEN queuedToggles + 1
                        ELSE queuedToggles
    /\ interacted' = TRUE
    /\ UNCHANGED <<autoCenterOnMarker, prevAutoCenter, turned>>
    /\ UNCHANGED <<tickOutcome, markerPosition, displayedProgress>>
    /\ UNCHANGED <<journeyVars, markerRouteVars, refVars>>
    /\ UNCHANGED <<optVars, appVars, rendererVars, pureVars, twinVars, restVars>>

\* a dragstart of the map or a wheel, touchstart or dblclick on its div:
\* handleInteraction, with handleMapInteraction of App as onUserInteraction,
\* its autoCenterOnMarker being the value last rendered
handleInteraction ==
    /\ mounted
    /\ burst < MaxBurst
    /\ burst' = burst + 1
    /\ IF ~autoCenterActive
       THEN UNCHANGED <<autoCenterActive, mapTilt, mapHeading, notices,
                        queuedToggles, interacted>>
       ELSE /\ autoCenterActive' = FALSE
            /\ mapTilt' = 0
            /\ mapHeading' = "north"
            /\ notices' = notices + 1
            /\ queuedToggles' = IF autoCenterOnMarker THEN queuedToggles + 1
                                ELSE queuedToggles
            /\ interacted' = TRUE
    /\ UNCHANGED <<autoCenterOnMarker, prevAutoCenter, turned>>
    /\ UNCHANGED <<tickOutcome, markerPosition, displayedProgress>>
    /\ UNCHANGED <<journeyVars, markerRouteVars, refVars>>
    /\ UNCHANGED <<optVars, appVars, rendererVars, pureVars, twinVars, restVars>>

\* the render the interactions scheduled
RenderAutoCenter ==
    /\ mounted
    /\ burst > 0
    /\ renderCenter(Center, FALSE, markerPosition.kind # "none")
    /\ UNCHANGED <<tickOutcome, markerPosition, displayedProgress, turned,
                   interacted>>
    /\ UNCHANGED <<journeyVars, markerRouteVars, refVars>>
    /\ UNCHANGED <<optVars, appVars, rendererVars, pureVars, twinVars, restVars>>

\* a route of two points is loaded, no journey started yet
InitCenter ==
    /\ InitCall
    /\ InitApp
    /\ InitTimeVars
    /\ InitTableVars
    /\ InitSegmentVars
    /\ InitDecodeVars
    /\ InitLocateVars
    /\ InitTravelVars
    /\ InitPositionVars
    /\ InitTwinVars
    /\ InitRestVars
    /\ InitCenterVars
    /\ mounted = TRUE
    /\ hasPlaces = TRUE
    /\ hasRouteData = TRUE
    /\ isJourneyStarted = FALSE
    /\ progress = 0
    /\ awaited = 0
    /\ markerPath = <<GeoPoint(1), GeoPoint(2)>>
    /\ markerDistances = cumulativeDistanceTable(markerPath)
    /\ markerSegments = <<>>
    /\ markerVisible = FALSE
    /\ startProgress = 0
    /\ targetProgress = 0
    /\ animationFrame = 0
    /\ pendingFrames = {}
    /\ hasCleanup = FALSE
    /\ tickOutcome = "none"
    /\ markerPosition = [kind |-> "none"]
    /\ displayedProgress = Quotient(0, 1)

NextCenter ==
    \/ handleStartJourney
    \/ handleTimeUpdate
    \/ handleComplete
    \/ \E id \in FrameIds, finished \in BOOLEAN : animate(id, finished)
    \/ handleToggleAutoCenter
    \/ handleInteraction
    \/ RenderAutoCenter
    \/ ResetJourney

SpecCenter == InitCenter /\ [][NextCenter]_vars

(***************************************************************************)
(* Properties of calculateIdealStopovers (SpecOpt, SpecLoop)               *)
(***************************************************************************)
CoordsOf(locations) ==
    [i \in 1..Len(locations) |-> Coord(locations[i].lat, locations[i].lng)]

\* C1: an invocation issues one initial route query and at most 4
\* leg-duration queries whatever the oracle answers, and, every request being
\* answered, it terminates.
C1_BoundedRefinement ==
    /\ [](routeQueries <= 1 /\ legQueries <= 4)
    /\ [](pc \in {"awaitRoute", "awaitLegs", "geocoding"} => <>(pc = "done"))

\* the fourth answer still asked for a refinement: the loop ended on its bound
C1_Witness ==
    /\ pc = "done"
    /\ legQueries = 4
    /\ attempt = 4

\* C3: for a finite maxStopovers >= 0 the returned list has at most
\* floor(maxStopovers) entries, at most 23 when the argument is omitted, and
\* maxStopovers = 0 returns the empty list.
C3_ReturnedWithinMaximum ==
    settled = "resolved" =>
        /\ (maxStopovers.kind = "number" /\ maxStopovers.halves >= 0)
               => 2 * Len(returned) <= maxStopovers.halves
        /\ maxStopovers.kind = "absent" => Len(returned) <= 23
        /\ maxStopovers = ArgNumber(0) => returned = <<>>

\* maxStopovers = 2.5 and a list of 2 returned after a grow step
C3_Witness ==
    /\ pc = "done"
    /\ maxStopovers = ArgNumber(5)
    /\ attempt >= 1
    /\ Len(returned) = 2

\* C4: after a failed leg-duration query the result is the last candidate set
\* whose leg-duration query succeeded, the empty list if there is none.
C4_FailureKeepsLastSuccessful ==
    (pc = "done" /\ legReply = "failed") => CoordsOf(returned) = lastEvaluated

\* C5: an answer with every leg within [1200, 1800] ends the refinement with
\* that attempt's candidates and no further leg-duration query; a 5400 s route
\* accepted on the first attempt gives 3 stopovers after one route query and
\* one leg-duration query.
C5_AcceptWithinRange ==
    (/\ legReply = "ok"
     /\ \A i \in 1..Len(legDurations) :
            legDurations[i] >= 1200 /\ legDurations[i] <= 1800)
    => /\ pc \in {"geocoding", "done"}
       /\ stopoverCoords = intermediates
       /\ pc = "done" => CoordsOf(returned) = intermediates
       /\ (/\ totalDuration = Num(5400)
           /\ attempt = 0
           /\ \/ maxStopovers.kind = "absent"
              \/ maxStopovers.kind = "number" /\ maxStopovers.halves >= 6)
          => /\ Len(intermediates) = 3
             /\ routeQueries = 1
             /\ legQueries = 1

\* the 5400 s route accepted on the first attempt, both bounds of the window
\* in the answer
C5_Witness ==
    /\ pc = "done"
    /\ totalDuration = Num(5400)
    /\ maxStopovers = ArgAbsent
    /\ attempt = 0
    /\ legReply = "ok"
    /\ legDurations = <<1200, 1800>>
    /\ Len(returned) = 3

\* C6: the optimizer starts from max(1, round(totalDuration / 1500)) segments
\* (halves round up); a total duration <= 1500 s, 0 or unparsable gives 1
\* segment and the empty list with no leg-duration or geocoding request.
C6_IdealSegments ==
    routeReply = "route" =>
        /\ idealSegments >= 1
        /\ (IsFinite(totalDuration) /\ totalDuration.val > 1500) =>
              /\ 2 * totalDuration.val >= (2 * idealSegments - 1) * 1500
              /\ 2 * totalDuration.val < (2 * idealSegments + 1) * 1500
        /\ (~IsFinite(totalDuration) \/ totalDuration.val <= 1500) =>
              /\ idealSegments = 1
              /\ pc = "done"
              /\ returned = <<>>
              /\ legQueries = 0
              /\ geocodeQueries = 0

\* a duration exactly halfway between 1 and 2 segments
C6_Witness ==
    /\ routeReply = "route"
    /\ totalDuration = Num(2250)
    /\ idealSegments = 2

\* C7: the promise never rejects; a failed initial route request resolves to
\* the empty list and no further request is issued.
C7_NeverRejects ==
    /\ settled # "rejected"
    /\ routeReply \in {"http_error", "throw", "no_routes"} =>
          /\ pc = "done"
          /\ settled = "resolved"
          /\ returned = <<>>
          /\ legQueries = 0
          /\ geocodeQueries = 0

\* the initial request was answered with a non-2xx status
C7_Witness ==
    /\ routeReply = "http_error"
    /\ pc = "done"

(***************************************************************************)
(* Properties of the application (SpecApp) and of the renderer's route     *)
(* computations (SpecRender)                                               *)
(***************************************************************************)
\* C2: every route query carries at most 23 intermediate waypoints: the
\* optimizer's leg-duration queries, and the renderer's route computations
\* after manual additions and auto-suggestions.
C2_WaypointCeiling ==
    /\ Len(intermediates) <= 23
    /\ Len(lastRouteQuery) <= 23
    /\ \A request \in inflight : Len(request.intermediates) <= 23

\* the renderer computes a route through 23 suggested stopovers, which the
\* optimizer reached by a grow step
C2_Witness ==
    /\ Len(lastRouteQuery) = 23
    /\ Len(stopovers) = 23

\* the inputs the renderer was last rendered with, as a route
CurrentRoute ==
    IF origin = NullLocation \/ destination = NullLocation
    THEN NoRoute
    ELSE [origin |-> origin, destination |-> destination,
          via |-> Intermediates(stopovers)]

\* C8: after a failed route computation (non-2xx status, transport error, or
\* a response without routes) the route path, the cumulative-distance table
\* and the speed segments are empty.
C8_FailureResetsTables ==
    answered \in {"http_error", "throw", "no_routes"} =>
        /\ routePath = NoRoute
        /\ cumulativeDistances = NoRoute
        /\ speedSegments = NoRoute

\* C9: once no route computation is in flight, the route path, the distance
\* table, the speed segments and the RouteData of the parent hold nothing of
\* a superseded request: they belong to the most recent inputs (to no route
\* after a reset), or are empty.
C9_NoStaleRoute ==
    inflight = {} =>
        /\ routePath \in {CurrentRoute, NoRoute}
        /\ cumulativeDistances \in {CurrentRoute, NoRoute}
        /\ speedSegments \in {CurrentRoute, NoRoute}
        /\ routeData \in {CurrentRoute, NoRoute}

\* C10: after a journey reset the stopovers and their rest durations stay
\* empty until the user adds a stopover or triggers a new auto-suggestion.
C10_ResetClearsStopovers ==
    cleanSinceReset =>
        /\ stopovers = <<>>
        /\ stopoverDurations = <<>>

(***************************************************************************)
(* Properties of the route geometry functions                              *)
(***************************************************************************)
\* C11: the series buildTimePoints returns has non-decreasing times and, when
\* it is not empty, its first sample has time 0.
C11_TimesNonDecreasing ==
    /\ \A i \in 1..(Len(timePoints) - 1) :
          NumLeq(timePoints[i].time, timePoints[i + 1].time)
    /\ Len(timePoints) > 0 => timePoints[1].time = Num(0)

\* C12: the cumulative-distance table has the length of the polyline it
\* belongs to (the empty polyline included), starts with 0 and is
\* non-decreasing.
C12_TableAlignedWithPolyline ==
    distances # <<>> =>
        /\ Len(distances) = Len(polyline)
        /\ distances[1] = 0
        /\ \A i \in 1..(Len(distances) - 1) : distances[i] <= distances[i + 1]

RECURSIVE SumDurations(_)
SumDurations(segments) ==
    IF segments = <<>> THEN 0
    ELSE Head(segments).duration + SumDurations(Tail(segments))

\* C13: the durations of the speed segments of a computed route add up to
\* the route's reported total duration within 1 second.
C13_SegmentsSumToTotal ==
    builtSegments # <<>> =>
        /\ SumDurations(builtSegments) - durationSeconds <= 1
        /\ durationSeconds - SumDurations(builtSegments) <= 1

(***************************************************************************)
(* Properties of decodePolyline (SpecDecode)                               *)
(***************************************************************************)
\* the positions of the characters that end a group, in order
RECURSIVE GroupEnds(_, _)
GroupEnds(string, i) ==
    IF i > Len(string) THEN <<>>
    ELSE IF string[i] < 32 THEN <<i>> \o GroupEnds(string, i + 1)
    ELSE GroupEnds(string, i + 1)

\* complete groups only, and every latitude group with its longitude group
WellFormed(string) ==
    /\ string # <<>> => string[Len(string)] < 32
    /\ Len(GroupEnds(string, 1)) % 2 = 0

\* the string stops inside a group, or after a latitude group
Truncated(string) == ~WellFormed(string)

CompletePairs(string) == Len(GroupEnds(string, 1)) \div 2

\* the 5-bit chunks of the k-th group, least significant first
RECURSIVE ChunkSum(_, _, _)
ChunkSum(string, first, last) ==
    IF first > last THEN 0
    ELSE (string[first] % 32) + 32 * ChunkSum(string, first + 1, last)

GroupValue(string, k) ==
    LET ends == GroupEnds(string, 1)
    IN  ChunkSum(string, IF k = 1 THEN 1 ELSE ends[k - 1] + 1, ends[k])

\* the signed delta a zig-zag value stands for
Delta(value) == IF value % 2 = 0 THEN value \div 2 ELSE -((value + 1) \div 2)

RECURSIVE DeltaSum(_, _, _)
DeltaSum(string, k, parity) ==
    IF k < 1 THEN 0
    ELSE Delta(GroupValue(string, 2 * k - parity))
         + DeltaSum(string, k - 1, parity)

\* one point per pair of groups, each the running sum of the deltas
ExpectedPoints(string) ==
    [k \in 1..CompletePairs(string) |->
        E5Point(DeltaSum(string, k, 1), DeltaSum(string, k, 0))]

\* C14: decoding a truncated encoded polyline ends in a DecodeError outcome
\* and emits no point for the incomplete pair.
C14_TruncatedIsDecodeError ==
    decodeOutcome # "pending" /\ Truncated(encoded) =>
        /\ decodeOutcome = "DecodeError"
        /\ Len(decoded) <= CompletePairs(encoded)

\* C15: for a well-formed encoded string decodePolyline returns one point
\* per pair of deltas, in order, each the running sum of the zig-zag decoded
\* deltas in units of 1e-5; the reference string starts at (38.5, -120.2).
C15_DecodesRunningSums ==
    decodeOutcome = "returned" /\ WellFormed(encoded) =>
        /\ decoded = ExpectedPoints(encoded)
        /\ encoded = ReferenceString =>
               decoded[1] = E5Point(3850000, -12020000)

C15_Witness ==
    /\ decodeOutcome = "returned"
    /\ encoded = ReferenceString
    /\ Len(decoded) = 3

(***************************************************************************)
(* Properties of getPointAtTime (SpecLocate)                               *)
(***************************************************************************)
NonDecreasingTimes(points) ==
    \A i \in 1..Len(points) :
        /\ ~points[i].time.nan
        /\ i > 1 => points[i - 1].time.val <= points[i].time.val

\* the point q = (lat, lng) lies on the straight segment from a to b
OnSegment(q, a, b) ==
    /\ ~q.lat.nan /\ ~q.lng.nan
    /\ (q.lat.num - a.lat * q.lat.den) * (b.lng - a.lng) * q.lng.den
         = (q.lng.num - a.lng * q.lng.den) * (b.lat - a.lat) * q.lat.den
    /\ Min(a.lat, b.lat) * q.lat.den <= q.lat.num
    /\ q.lat.num <= Max(a.lat, b.lat) * q.lat.den
    /\ Min(a.lng, b.lng) * q.lng.den <= q.lng.num
    /\ q.lng.num <= Max(a.lng, b.lng) * q.lng.den

\* the result of the last call is what the claim says it is
LocatedAsClaimed ==
    located.kind # "pending" /\ series # <<>> /\ NonDecreasingTimes(series) =>
        LET last == Len(series)
        IN  /\ located.kind = "point"
            /\ targetTime <= series[1].time.val =>
                   located = plainPoint(series[1])
            /\ targetTime > series[last].time.val =>
                   located = plainPoint(series[last])
            /\ /\ targetTime > series[1].time.val
               /\ targetTime <= series[last].time.val
               => /\ bracket \in 1..(last - 1)
                  /\ series[bracket].time.val < targetTime
                  /\ targetTime <= series[bracket + 1].time.val
                  /\ OnSegment(located, series[bracket], series[bracket + 1])

\* from one call to the next, with a target that did not decrease, the
\* index of the bracketing segment does not decrease
BracketAdvances ==
    located.kind # "pending" /\ NonDecreasingTimes(series) =>
        bracket' >= bracket

\* C16: on a non-empty series with non-decreasing times getPointAtTime
\* returns the first point for a target at or before the first time, the
\* last point for a target after the last time, and otherwise a point on the
\* straight segment between the two consecutive samples that bracket the
\* target; as the target increases the bracketing index never decreases.
C16_PointOnBracketingSegment ==
    []LocatedAsClaimed /\ [][BracketAdvances]_vars

\* a target halfway through the second segment, between two different
\* places: the result is the midpoint
C16_Witness ==
    /\ NonDecreasingTimes(series)
    /\ Len(series) = 3
    /\ located.kind = "point"
    /\ bracket = 2
    /\ targetTime = 18
    /\ series[2].time.val = 12 /\ series[3].time.val = 24
    /\ series[2].lat # series[3].lat
    /\ located.lat.num * 2 = (series[2].lat + series[3].lat) * located.lat.den

(***************************************************************************)
(* Properties of getPositionAtProgress (SpecTravel)                        *)
(***************************************************************************)
\* the durations of the first k segments
RECURSIVE DurationBefore(_, _)
DurationBefore(segments, k) ==
    IF k = 0 THEN 0
    ELSE segments[k].duration + DurationBefore(segments, k - 1)

\* the segment that holds the elapsed time p * total: the first whose end
\* time is not before it
HoldingSegment(segments, p) ==
    LET total == DurationBefore(segments, Len(segments))
    IN  CHOOSE k \in 1..Len(segments) :
            /\ DurationBefore(segments, k) * p.den >= p.num * total
            /\ \A j \in 1..(k - 1) :
                   DurationBefore(segments, j) * p.den < p.num * total

RECURSIVE GCD(_, _)
GCD(a, b) == IF b = 0 THEN a ELSE GCD(b, a % b)

\* a quotient of a numerator >= 0 and a denominator > 0 in lowest terms
LowestTerms(q) ==
    Quotient(q.num \div GCD(q.num, q.den), q.den \div GCD(q.num, q.den))

\* distance = startDistance + (p * total - before) * speed, as an equation
\* between quotients
DistanceAsClaimed(segments, p, distance) ==
    LET total == DurationBefore(segments, Len(segments))
        segment == segments[HoldingSegment(segments, p)]
        before == DurationBefore(segments, HoldingSegment(segments, p) - 1)
    IN  LowestTerms(distance)
            = LowestTerms(Quotient(
                  segment.startDistance * p.den * segment.speed.den
                      + (p.num * total - before * p.den) * segment.speed.num,
                  p.den * segment.speed.den))

\* C17: the distance derived from a progress p is segment.startDistance +
\* (p * total duration - duration accumulated before the segment) *
\* segment.speed for the segment that holds the elapsed time; the example
\* series gives 1000 at p = 100/150 and 750 at p = 0.5.
C17_DistanceFromProgress ==
    targetDistance # NoDistance =>
        /\ DistanceAsClaimed(givenSegments, prog, targetDistance)
        /\ givenSegments = ExampleSegments /\ prog = Quotient(100, 150) =>
               targetDistance.num = 1000 * targetDistance.den
        /\ givenSegments = ExampleSegments /\ prog = Quotient(1, 2) =>
               targetDistance.num = 750 * targetDistance.den

\* the example series at p = 9/10: 35 s into the second segment, 1700 m
C17_Witness ==
    /\ targetDistance # NoDistance
    /\ givenSegments = ExampleSegments
    /\ prog = Quotient(9, 10)
    /\ targetDistance.num = 1700 * targetDistance.den

(***************************************************************************)
(* Properties of the progress marker (SpecAnim)                            *)
(***************************************************************************)
\* C18: at most one animation-frame callback is pending at any time; a new
\* progress value, the reset to 0 and the unmount cancel the pending frame
\* before another is requested, so the only pending frame is the one
\* animationFrameRef holds and none is pending after the unmount.
C18_OneFramePending ==
    /\ Cardinality(pendingFrames) <= 1
    /\ pendingFrames \subseteq {animationFrame}
    /\ ~mounted => pendingFrames = {}

\* a frame requested for a second progress value while animate had
\* requested its own next frame
C18_Witness ==
    /\ Cardinality(pendingFrames) = 1
    /\ startProgress > 0
    /\ targetProgress > startProgress
    /\ tickOutcome = "positioned"

\* C19: whenever progress is 0 the marker is hidden, the animation start and
\* target are 0 and no frame is pending; the marker is visible only while
\* progress > 0 on a non-empty route.
C19_IdleWhenProgressZero ==
    /\ progress = 0 =>
           /\ ~markerVisible
           /\ startProgress = 0
           /\ targetProgress = 0
           /\ pendingFrames = {}
    /\ markerVisible => progress > 0 /\ markerPath # <<>>

\* C20: no response and no route shape makes an animation tick raise an
\* uncaught exception: every run of animate gives the marker a position.
C20_TickNeverThrows ==
    tickOutcome # "TypeError"

(***************************************************************************)
(* Properties of the parsing of duration fields (SpecSegments)             *)
(***************************************************************************)
\* the steps of all legs, in order
RECURSIVE AllSteps(_)
AllSteps(legs) ==
    IF legs = <<>> THEN <<>> ELSE Head(legs) \o AllSteps(Tail(legs))

\* the seconds of a well-formed "<integer>s" field, 0 for any other field
SecondsOrZero(field) == IF field.kind = "seconds" THEN field.val ELSE 0

\* C21: every duration field of a response parses to the integer seconds of
\* a well-formed "<integer>s" string and to 0 when it is missing or
\* malformed; here the route duration and the step durations read by
\* computeRoute.
C21_DurationsParseOrZero ==
    builtSegments # <<>> =>
        /\ durationSeconds = SecondsOrZero(routeDuration)
        /\ Len(builtSegments) = Len(AllSteps(routeLegs))
        /\ \A i \in 1..Len(builtSegments) :
               builtSegments[i].duration
                   = SecondsOrZero(AllSteps(routeLegs)[i].staticDuration)

\* C22: the list geocodeStopoverCoordinates builds and returns has the
\* coordinates of the accepted list, in its order and in its length once
\* returned, whichever calls failed; an entry is the geocoder's address or
\* the label "Stop N" with N the entry's 1-based position.
C22_GeocodingKeepsCoordinates ==
    pc \in {"geocoding", "done"} =>
        /\ Len(results) <= Len(stopoverCoords)
        /\ CoordsOf(results) = SubSeq(stopoverCoords, 1, Len(results))
        /\ \A i \in 1..Len(results) :
               results[i].address \in {FormattedAddress, StopLabel(i)}
        /\ settled = "resolved" =>
               /\ returned = results
               /\ Len(returned) = Len(stopoverCoords)

\* three stops returned, the first with its address, the others labelled
C22_Witness ==
    /\ pc = "done"
    /\ Len(returned) = 3
    /\ returned[1].address = FormattedAddress
    /\ returned[2].address = StopLabel(2)
    /\ returned[3].address = StopLabel(3)
    /\ CoordsOf(returned) = <<Coord(2, 3), Coord(1, 2), Coord(1, 3)>>
SegmentCeiling ==
    Min(normalizeMaxStopovers(maxStopovers) + 1, MAX_AUTO_STOP_OVERS + 1)

\* C24: an attempt that reports a leg above 1800 s while evaluatedSegments is
\* below its ceiling adds one to evaluatedSegments, whatever the other legs
\* are, and the next attempt, when the loop has one left, queries the legs
\* of evaluatedSegments + 1 segments.
C24_GrowingWins ==
    [][(pc = "awaitLegs" /\ hasOverMax(legDurations')
           /\ evaluatedSegments < SegmentCeiling)
        => /\ evaluatedSegments' = evaluatedSegments + 1
           /\ attempt' = attempt + 1
           /\ attempt + 1 < MAX_ATTEMPTS =>
                  /\ pc' = "awaitLegs"
                  /\ Len(intermediates') = evaluatedSegments
                  /\ legQueries' = legQueries + 1]_vars

\* the second attempt is awaited with one segment more than the first, whose
\* legs were one too long and one too short
C24_Witness ==
    /\ pc = "awaitLegs"
    /\ attempt = 1
    /\ hasOverMax(legDurations)
    /\ hasUnderMin(legDurations)
    /\ evaluatedSegments = Min(Max(idealSegments, 1), maxSegments) + 1
    /\ Len(intermediates) = evaluatedSegments - 1
\* ceil(totalDuration / 1800)
FewestSegments == MathCeil(totalDuration.val, MAX_IDEAL_SEGMENT_SECONDS)

\* the loop has been entered: its ceiling is computed just before it
InLoop == pc = "awaitLegs" \/ (pc \in {"geocoding", "done"} /\ maxSegments # 0)

SegmentsWithinBounds ==
    InLoop => /\ evaluatedSegments >= 1
              /\ evaluatedSegments <= SegmentCeiling

DecrementAsClaimed ==
    (pc = "awaitLegs" /\ evaluatedSegments' < evaluatedSegments)
    => /\ hasUnderMin(legDurations')
       /\ ~(hasOverMax(legDurations') /\ evaluatedSegments < SegmentCeiling)
       /\ evaluatedSegments > FewestSegments
       /\ evaluatedSegments' = evaluatedSegments - 1
       /\ evaluatedSegments' >= 1
       /\ evaluatedSegments' >= FewestSegments

\* C25: evaluatedSegments goes down only by one, only after an attempt that
\* reports a leg below 1200 s without the grow step being taken and with
\* evaluatedSegments above ceil(totalDuration / 1800), so not below 1 nor
\* below that quotient; in the loop it stays within
\* [1, min(maxStopovers + 1, 24)].
C25_ShrinkWithinBounds ==
    []SegmentsWithinBounds /\ [][DecrementAsClaimed]_vars

\* the second attempt is awaited with one segment fewer than the first,
\* which had a leg too short
C25_Witness ==
    /\ pc = "awaitLegs"
    /\ attempt = 1
    /\ hasUnderMin(legDurations)
    /\ evaluatedSegments = Min(Max(idealSegments, 1), maxSegments) - 1
    /\ evaluatedSegments >= FewestSegments
\* C26: an attempt that reports a leg above 1800 s and a leg below 1200 s
\* while evaluatedSegments is at its ceiling is the last one: its candidate
\* set is accepted and goes to reverse geocoding, and no further leg query
\* is issued.
C26_BestEffortAtCeiling ==
    [][(pc = "awaitLegs" /\ hasOverMax(legDurations')
           /\ hasUnderMin(legDurations')
           /\ evaluatedSegments = SegmentCeiling)
        => /\ pc' = "geocoding"
           /\ stopoverCoords' = stopoverCoords
           /\ evaluatedSegments' = evaluatedSegments
           /\ legQueries' = legQueries]_vars
\* the progress effect starts a transition: it moves a ref while the journey
\* has progress and the marker shows the position of an earlier frame
TransitionStarts ==
    /\ markerVisible /\ markerVisible'
    /\ tickOutcome = "positioned"
    /\ progress' > 0
    /\ startProgress' # startProgress \/ targetProgress' # targetProgress

\* C27: a transition starts from the progress the marker displays at that
\* moment and ends at the new target, also when the previous transition has
\* not finished or when a dependency change re-runs the effect.
C27_TransitionStartsAtDisplayed ==
    [][TransitionStarts
        => /\ targetProgress' = progress'
           /\ startProgress' * displayedProgress.den
                  = displayedProgress.num * JourneySeconds]_vars
\* two coordinates are the same number
SameCoordinate(a, b) ==
    /\ ~a.nan /\ ~b.nan
    /\ a.num * (b.den \div GCD(a.den, b.den))
           = b.num * (a.den \div GCD(a.den, b.den))

\* the interpolation fraction of getPositionAtProgress, 0 on a segment
\* without length, is within [0, 1]
FractionWithinUnit(table, distance) ==
    LET i == findSegmentIndex(table, distance, 1)
    IN  (i + 1 <= Len(table) /\ table[i + 1] - table[i] > 0)
        => /\ distance.num >= table[i] * distance.den
           /\ distance.num <= table[i + 1] * distance.den

\* C28: for the distance it derives from p the animator returns the point
\* getPointAtDistance returns: the interpolation fraction is within [0, 1],
\* and a distance beyond the last entry of the table gives the last point
\* of the route.
C28_AnimatorMatchesInterpolation ==
    animatorPosition.kind # "pending" =>
        /\ animatorPosition.kind = "LatLng"
        /\ distancePoint.kind = "point"
        /\ SameCoordinate(animatorPosition.lat, distancePoint.lat)
        /\ SameCoordinate(animatorPosition.lng, distancePoint.lng)
        /\ FractionWithinUnit(distances, targetDistance)
        /\ targetDistance.num > distances[Len(distances)] * targetDistance.den
               => /\ SameCoordinate(animatorPosition.lat,
                                    Coordinate(polyline[Len(polyline)].lat, 1))
                  /\ SameCoordinate(animatorPosition.lng,
                                    Coordinate(polyline[Len(polyline)].lng, 1))
\* the duration of a step, 0 when missing
StepSeconds(step) ==
    IF SecondsOrZero(step.duration) # 0 THEN SecondsOrZero(step.duration)
    ELSE SecondsOrZero(step.staticDuration)

\* the steps as buildStep handles them, except that a step of fewer than 2
\* points advances the cumulative time by its duration and does nothing else
RECURSIVE ShortStepsOnlyAdvance(_, _)
ShortStepsOnlyAdvance(acc, steps) ==
    IF steps = <<>> THEN acc
    ELSE ShortStepsOnlyAdvance(
             IF Len(Head(steps).polyline) < 2
             THEN [acc EXCEPT !.cumulativeTime =
                                  NumAdd(@, Num(StepSeconds(Head(steps))))]
             ELSE buildStep(acc, Head(steps)),
             Tail(steps))

SeriesWithoutShortSteps(route) ==
    LET points ==
            ShortStepsOnlyAdvance([points |-> <<>>, cumulativeTime |-> Num(0)],
                                  AllSteps(route)).points
    IN  IF Len(points) > 0 THEN [points EXCEPT ![1].time = Num(0)] ELSE points

\* C29: a step whose polyline decodes to 0 or 1 points adds no sample and
\* advances the cumulative time by its duration, 0 when missing: the series
\* is the one built with such steps only advancing the time.
C29_ShortStepAddsNoSample ==
    timePoints # <<>> => timePoints = SeriesWithoutShortSteps(timedRoute)
\* the steps up to the last one that has points
RECURSIVE UpToLastVertex(_)
UpToLastVertex(steps) ==
    IF steps = <<>> \/ Len(steps[Len(steps)].polyline) > 0 THEN steps
    ELSE UpToLastVertex(SubSeq(steps, 1, Len(steps) - 1))

\* the cumulative time when the last vertex of the route is emitted
TimeAtLastVertex(route) ==
    buildSteps([points |-> <<>>, cumulativeTime |-> Num(0)],
               UpToLastVertex(AllSteps(route))).cumulativeTime

\* C30: no two consecutive samples of the series have the same lat and lng;
\* the last sample, which absorbs the vertices that coincide with it, has
\* the cumulative time of the last vertex emitted, and the first sample has
\* time 0.
C30_NoRepeatedSample ==
    timePoints # <<>> =>
        /\ \A i \in 1..(Len(timePoints) - 1) :
               \/ timePoints[i].lat # timePoints[i + 1].lat
               \/ timePoints[i].lng # timePoints[i + 1].lng
        /\ timePoints[1].time = Num(0)
        /\ Len(timePoints) > 1 =>
               timePoints[Len(timePoints)].time = TimeAtLastVertex(timedRoute)

\* a step from the first point to the second, then a step that stays on the
\* second point for 12 s: two samples, the second at 24 s
C30_Witness ==
    /\ Len(AllSteps(timedRoute)) = 2
    /\ AllSteps(timedRoute)[1].polyline = <<GeoPoint(1), GeoPoint(2)>>
    /\ AllSteps(timedRoute)[2].polyline = <<GeoPoint(2), GeoPoint(2)>>
    /\ Len(timePoints) = 2
    /\ timePoints[1].time = Num(0)
    /\ timePoints[2] = TimePoint(GeoPoint(2), Num(24))
\* C31: on a non-empty polyline with a table of its length that starts at 0
\* and does not decrease, getPointAtDistance returns for every target the
\* point getPointAtTime returns on the series of the vertices timed by their
\* table entries.
C31_DistanceLikeTime ==
    located.kind # "pending" =>
        /\ located.kind = "point"
        /\ distancePoint.kind = "point"
        /\ SameCoordinate(located.lat, distancePoint.lat)
        /\ SameCoordinate(located.lng, distancePoint.lng)

\* a target on an entry that the table repeats, the vertices of the two
\* entries being different
C31_Witness ==
    /\ located.kind = "point"
    /\ distancePoint.kind = "point"
    /\ Len(polyline) >= 3
    /\ distances[2] = distances[3]
    /\ polyline[2] # polyline[3]
    /\ polyline[1] # polyline[2]
    /\ distances[2] > 0
    /\ targetTime = distances[2]
\* C32: a speed-segment series computeRoute produces starts at distance 0,
\* every segment starts where the previous one ends, and the last segment
\* ends at the last entry of the cumulative-distance table.
C32_SegmentsPartitionRoute ==
    (distances # <<>> /\ builtSegments # <<>>) =>
        /\ builtSegments[1].startDistance = 0
        /\ \A i \in 1..(Len(builtSegments) - 1) :
               builtSegments[i + 1].startDistance = builtSegments[i].endDistance
        /\ builtSegments[Len(builtSegments)].endDistance
               = distances[Len(distances)]
\* the final sample of the time series, as generateStopoverCoordinates
\* would return it
FinalSamplePoint == plainPoint(timePoints[Len(timePoints)])

LegsOfThisList ==
    /\ Len(routeLegDurations) = Len(Intermediates(stopovers)) + 1
    /\ totalRouteDuration > 0
    /\ Len(routePath) > 0

\* the summed durations of the legs that end at or before the stopover at
\* index, over the total route duration, clamped to [0, 1]
PositionByLegs(index) ==
    clampedRatio(
        SumSeq(SubSeq(routeLegDurations, 1,
                      Len(Intermediates(SubSeq(stopovers, 1, index))))),
        totalRouteDuration)

\* C34: the position reported for a set stopover is the summed duration of
\* the legs ending at or before it over the total route duration, clamped
\* to [0, 1], also behind an unset slot; the list reported for a route
\* has one entry per stopover, each within [0, 1]
C34_PositionsFollowLegs ==
    stopoverPositions.kind = "reported" =>
        /\ Len(routePath) > 0 => Len(stopoverPositions.values) = Len(stopovers)
        /\ \A index \in 1..Len(stopoverPositions.values) :
               withinUnit(stopoverPositions.values[index])
        /\ LegsOfThisList =>
               \A index \in 1..Len(stopovers) :
                   ~isUnset(stopovers[index]) =>
                       /\ index <= Len(stopoverPositions.values)
                       /\ stopoverPositions.values[index].num
                              * PositionByLegs(index).den
                          = PositionByLegs(index).num
                              * stopoverPositions.values[index].den
\* the timer of a journey over the loaded route reached the total time
JourneyCompleted ==
    /\ hasRouteData
    /\ completionDialogOpen
    /\ ~isJourneyStarted
    /\ timerElapsed = JourneySeconds

\* the number of calls of onRestStart for the stopover at index
RestsStarted(index) ==
    Cardinality({at \in 1..Len(restLog) : restLog[at] = index})

\* the reported position of the stopover at index is strictly between 0
\* and 1
StrictlyInside(index) ==
    /\ stopoverPositions.values[index].num > 0
    /\ stopoverPositions.values[index].num < stopoverPositions.values[index].den

\* C35: when a journey has run to completion, onRestStart has been called
\* exactly once for every stopover whose reported position is strictly
\* between 0 and 1, whatever the total time and the spacing of the stopovers
C35_EveryStopoverRestsOnce ==
    JourneyCompleted =>
        \A index \in 1..Len(stopoverPositions.values) :
            StrictlyInside(index) => RestsStarted(index) = 1
\* C36: while a rest is in progress the journey is not running, and from
\* one state of the rest to the next the elapsed time of App and of the
\* timer and the progress stay as they are; pause, resume and start do not
\* break this
C36_RestHoldsJourney ==
    /\ [](isResting => ~isJourneyStarted)
    /\ [][(isResting /\ isResting')
              => /\ elapsedTime' = elapsedTime
                 /\ timerElapsed' = timerElapsed
                 /\ progress' = progress]_vars

C36_Witness ==
    /\ isResting /\ ~isJourneyStarted
    /\ restTimeRemaining > 0
    /\ restTimeRemaining < SECONDS_PER_MINUTE
    /\ progress > 0 /\ elapsedTime = progress
\* the elapsed time of App and the progress delivered to the map are within
\* the journey: [0, totalTime] and [0, 1]
WithinJourney ==
    /\ elapsedTime >= 0 /\ elapsedTime <= JourneySeconds
    /\ progress >= 0 /\ progress <= JourneySeconds

\* completion is signalled when the timer has reached the total time
CompletionSignalled ==
    (hasRouteData /\ timerElapsed = JourneySeconds)
        => completionDialogOpen

\* C37: when the timer has reached totalTime, completion is signalled and
\* the progress last delivered to the map is 1; the elapsed time stays
\* within [0, totalTime] and the delivered progress within [0, 1]
C37_CompletionDeliversOne ==
    /\ WithinJourney
    /\ CompletionSignalled
    /\ (hasRouteData /\ timerElapsed = JourneySeconds)
           => progress = JourneySeconds
\* C38: while auto-centering is on, the interaction events that arrive
\* before the next render notify the parent once, auto-centering is off
\* after that render and stays off, and no animation frame turns or tilts
\* the map until the user toggles auto-centering
C38_BurstEndsAutoCenter ==
    /\ [](notices <= 1)
    /\ []((interacted /\ queuedToggles = 0) => ~autoCenterOnMarker)
    /\ [][(autoCenterOnMarker /\ burst' > burst) => notices' = 1]_vars
    /\ [][(interacted /\ interacted') => turned' = turned]_vars

C38_Witness ==
    /\ interacted /\ autoCenterOnMarker /\ ~autoCenterActive
    /\ burst >= 2 /\ notices = 1 /\ queuedToggles = 1
    /\ turned
    /\ pendingFrames # {}
    /\ mapTilt = 0 /\ mapHeading = "north"
====
